---- MODULE Spec2Model ----
(***************************************************************************)
(* LEONA: agent orchestration, handlers, scheduler and memory store.       *)
(*                                                                         *)
(* Texts are sequences of pieces (a piece is a string; free model text is  *)
(* a sequence of one-character pieces).  Model output that is parsed as    *)
(* JSON is a sequence of lexical tokens.  Datetimes are records with the   *)
(* fields of datetime.datetime that the code reads or replaces.            *)
(***************************************************************************)
EXTENDS Integers, Sequences, FiniteSets, TLC

VARIABLES
    now,        \* datetime.now(): the wall clock
    pt_pc,      \* _parse_natural_time called on its own: "input" | "done"
    pt_desc,    \* how the argument was written: keyword, clock time, order
    pt_str,     \* its argument time_str, a sequence of characters
    pt_du,      \* what dateutil's parser.parse would do with time_str
    pt_res,     \* its outcome: [exc, dt]
    tasks,      \* MemoryManager: the rows of the tasks table, in rowid order
    st_pc,      \* a direct caller of the store: "idle" | "listed" | "checked"
    st_out,     \* what get_pending_tasks returned to it
    cc_event,   \* the event given to _check_conflicts
    cc_out,     \* what _check_conflicts returned: [exc, text]
    reminders,  \* SchedulerAgent.reminders
    recurring_tasks, \* SchedulerAgent.recurring_tasks
    chk_raised, \* whether the last iteration of _reminder_checker ended in its except branch
    h_pc,       \* a handler's execute: "idle" | "parse" | "dispatch" | "done" | "raised"
    h_agent,    \* the handler executing: "scheduler", "file", "system", "web", "automation"
    h_via,      \* who called execute: "direct" | "orchestrator"
    h_input,    \* its argument user_input
    h_params,   \* its argument parameters
    h_text,     \* the text the model returned to the handler's parse step
    h_cmd,      \* the command the parse step returned: [v, pt]
    h_fail,     \* the external call that failed during this execute, "none" if none did
    h_conflicts, \* the local variable conflicts of _add_calendar_event
    h_out,      \* what execute returned or raised: [exc, text]
    workflows,  \* AutomationAgent.workflows: the dict's items in insertion order
    triggers,   \* AutomationAgent.triggers: the dict's items in insertion order
    iot_devices, \* AutomationAgent.iot_devices: the dict's items in insertion order
    preferences, \* MemoryManager: the rows of the preferences table
    o_pc,       \* process_input: "idle" | "classify" | "route" | "exec" | "suggest" | "fallback" | "done" | "raised"
    o_input,    \* its argument user_input
    o_intent,   \* what _analyze_intent returned
    o_result,   \* the handler's result
    o_raw,      \* the text a model call returned to the orchestrator (suggestion or conversation)
    o_lookups,  \* how many times self.agents.get was called in this request
    o_execs,    \* the execute calls made in this request: <<[agent, input, params]>>
    o_gens,     \* the model calls the orchestrator made in this request: <<[kind, prompt, ok, out]>>
    o_fail,     \* what made this request fail, "none" if nothing did
    o_out,      \* what process_input returned or raised: [exc, text]
    a_req,      \* concurrent calls of AutomationAgent.execute: request -> [pc, cmd]
    a_log,      \* the stores into AutomationAgent.workflows so far: <<[id, existed, confirmed]>>
    e_runs,     \* the workflow ids the last iteration of _automation_engine ran, in order
    e_exc,      \* the exception that ended that iteration, "none" if none did
    devices,    \* SmartHomePlugin.devices: the dict's items in insertion order
    scenes,     \* SmartHomePlugin.scenes: "empty" | "default"
    sh,         \* a call of a SmartHomePlugin method: [pc, op, arg, queue, results, ...]
    conversations, \* MemoryManager: the rows of the conversations table, in rowid order
    cv_out,     \* what the last read of the conversations table returned: [exc, rows]
    ev_req      \* concurrent add_event calls of SchedulerAgent.execute: request -> [pc, ...]

----------------------------------------------------------------------------
(* datetime *)

\* a naive or aware datetime; day is the ordinal of the date
DT(d, h, m, s, u) == [day |-> d, hour |-> h, minute |-> m, second |-> s, micro |-> u, aware |-> FALSE]

\* now + timedelta(days=n)
AddDays(dt, n) == [dt EXCEPT !.day = dt.day + n]

\* dt + timedelta(minutes=n), n >= 0
AddMinutes(dt, n) ==
    LET total == dt.hour * 60 + dt.minute + n
    IN  [dt EXCEPT !.day = dt.day + (total \div 1440),
                   !.hour = (total % 1440) \div 60,
                   !.minute = total % 60]

\* datetime.__lt__ / __le__ on two datetimes of the same awareness
DtLess(a, b) ==
    \/ a.day < b.day
    \/ a.day = b.day /\ a.hour < b.hour
    \/ a.day = b.day /\ a.hour = b.hour /\ a.minute < b.minute
    \/ a.day = b.day /\ a.hour = b.hour /\ a.minute = b.minute /\ a.second < b.second
    \/ a.day = b.day /\ a.hour = b.hour /\ a.minute = b.minute /\ a.second = b.second
         /\ a.micro < b.micro

DtLE(a, b) == DtLess(a, b) \/ [a EXCEPT !.aware = FALSE] = [b EXCEPT !.aware = FALSE]

\* comparing a naive with an aware datetime raises TypeError
DtComparable(a, b) == a.aware = b.aware

\* datetime.replace(hour=h, minute=m, second=0): ValueError outside the clock range
ReplaceTime(dt, h, m) ==
    IF h > 23 \/ m > 59
    THEN [exc |-> "ValueError", dt |-> dt]
    ELSE [exc |-> "none", dt |-> [dt EXCEPT !.hour = h, !.minute = m, !.second = 0]]

----------------------------------------------------------------------------
(* SchedulerAgent._parse_natural_time *)

Digits == <<"0", "1", "2", "3", "4", "5", "6", "7", "8", "9">>
IsDigit(c) == \E i \in 1..10 : Digits[i] = c
DigitVal(c) == (CHOOSE i \in 1..10 : Digits[i] = c) - 1
DigitChar(n) == Digits[n + 1]

\* str.lower() on the characters a time string is written with
Lower(s) ==
    LET LowerChar(c) ==
            CASE c = "A" -> "a" [] c = "M" -> "m" [] c = "P" -> "p" [] c = "T" -> "t"
              [] c = "N" -> "n" [] OTHER -> c
    IN  [i \in 1..Len(s) |-> LowerChar(s[i])]

\* sub in s
Contains(s, sub) ==
    \E i \in 1..(Len(s) - Len(sub) + 1) : SubSeq(s, i, i + Len(sub) - 1) = sub

KwTomorrow == <<"t", "o", "m", "o", "r", "r", "o", "w">>
KwToday == <<"t", "o", "d", "a", "y">>
KwNextWeek == <<"n", "e", "x", "t", " ", "w", "e", "e", "k">>
KwNextMonth == <<"n", "e", "x", "t", " ", "m", "o", "n", "t", "h">>

\* re.search(r'(\d{1,2}):?(\d{0,2})?\s*(am|pm)?', s): leftmost match, greedy groups;
\* every part after the first digit may match empty, so no backtracking occurs
TimeMatch(s) ==
    IF \A i \in 1..Len(s) : ~IsDigit(s[i])
    THEN [found |-> FALSE, hour |-> 0, minute |-> 0, ampm |-> "none"]
    ELSE
      LET n == Len(s)
          i == CHOOSE k \in 1..n : IsDigit(s[k]) /\ \A j \in 1..(k - 1) : ~IsDigit(s[j])
          two == i + 1 <= n /\ IsDigit(s[i + 1])
          hour == IF two THEN DigitVal(s[i]) * 10 + DigitVal(s[i + 1]) ELSE DigitVal(s[i])
          p1 == IF two THEN i + 2 ELSE i + 1
          p2 == IF p1 <= n /\ s[p1] = ":" THEN p1 + 1 ELSE p1
          m1 == p2 <= n /\ IsDigit(s[p2])
          m2 == m1 /\ p2 + 1 <= n /\ IsDigit(s[p2 + 1])
          minute == IF m2 THEN DigitVal(s[p2]) * 10 + DigitVal(s[p2 + 1])
                    ELSE IF m1 THEN DigitVal(s[p2]) ELSE 0
          p3 == IF m2 THEN p2 + 2 ELSE IF m1 THEN p2 + 1 ELSE p2
          \* \s*: the first position at or after p3 that is not white space
          p4 == CHOOSE k \in p3..(n + 1) :
                    /\ \A j \in p3..(k - 1) : s[j] = " "
                    /\ (k = n + 1 \/ s[k] # " ")
          ampm == IF p4 + 1 <= n /\ s[p4] = "a" /\ s[p4 + 1] = "m" THEN "am"
                  ELSE IF p4 + 1 <= n /\ s[p4] = "p" /\ s[p4 + 1] = "m" THEN "pm"
                  ELSE "none"
      IN  [found |-> TRUE, hour |-> hour, minute |-> minute, ampm |-> ampm]

AdjustHourNoNoon(hour, ampm) == IF ampm = "pm" THEN hour + 12 ELSE hour

\* the hour after the am/pm adjustment
AdjustHour(hour, ampm) ==
    IF ampm = "pm" /\ hour < 12 THEN hour + 12
    ELSE IF ampm = "am" /\ hour = 12 THEN 0
    ELSE hour

\* the keyword branch: the base date, or "none" when no keyword is present
KeywordBase(lower, t) ==
    IF Contains(lower, KwTomorrow) THEN [kw |-> "tomorrow", dt |-> AddDays(t, 1)]
    ELSE IF Contains(lower, KwToday) THEN [kw |-> "today", dt |-> t]
    ELSE IF Contains(lower, KwNextWeek) THEN [kw |-> "next week", dt |-> AddDays(t, 7)]
    ELSE IF Contains(lower, KwNextMonth) THEN [kw |-> "next month", dt |-> AddDays(t, 30)]
    ELSE [kw |-> "none", dt |-> t]

\* _parse_natural_time(time_str) at clock t; du is the outcome of parser.parse(time_str)
\* ([ok |-> FALSE] when it raises), used only when no keyword is present
ParseNaturalTime(time_str, t, du) ==
    LET lower == Lower(time_str)
        kb == KeywordBase(lower, t)
        tm == TimeMatch(lower)
    IN  IF kb.kw = "none" /\ du.ok
        THEN [exc |-> "none", dt |-> du.dt]
        ELSE IF tm.found
             THEN ReplaceTime(kb.dt, AdjustHour(tm.hour, tm.ampm), tm.minute)
             ELSE [exc |-> "none", dt |-> kb.dt]

----------------------------------------------------------------------------
(* time strings given to _parse_natural_time *)

KwChars(kw) ==
    CASE kw = "tomorrow" -> KwTomorrow [] kw = "today" -> KwToday
      [] kw = "next week" -> KwNextWeek [] kw = "next month" -> KwNextMonth
      [] OTHER -> << >>
Cap(s) == [i \in 1..Len(s) |-> IF i = 1 /\ s[i] = "t" THEN "T" ELSE IF i = 1 /\ s[i] = "n" THEN "N" ELSE s[i]]

SampleHours == {0, 1, 9, 11, 12, 13, 23}
SampleMinutes == {0, 5, 30, 59}

HourChars(h, pad) ==
    IF h >= 10 THEN <<DigitChar(h \div 10), DigitChar(h % 10)>>
    ELSE IF pad THEN <<"0", DigitChar(h)>> ELSE <<DigitChar(h)>>
MinuteChars(m) == <<":", DigitChar(m \div 10), DigitChar(m % 10)>>
AmPmChars(ap) ==
    CASE ap = "am" -> <<"a", "m">> [] ap = "pm" -> <<"p", "m">> [] ap = "PM" -> <<"P", "M">>
      [] OTHER -> << >>

\* the description of a time string: a keyword (or none), an optional clock time
\* HH[:MM][am|pm] before or after it, or a string given literally
ClockDescs ==
    [form : {"clock"}, h : SampleHours, pad : BOOLEAN, hasMin : {TRUE}, m : SampleMinutes,
     sp : BOOLEAN, ap : {"none", "am", "pm", "PM"}]
    \cup [form : {"clock"}, h : SampleHours, pad : BOOLEAN, hasMin : {FALSE}, m : {0},
          sp : BOOLEAN, ap : {"none", "am", "pm", "PM"}]
NoClock == [form |-> "none", h |-> 0, pad |-> FALSE, hasMin |-> FALSE, m |-> 0, sp |-> FALSE, ap |-> "none"]

ClockChars(c) ==
    IF c.form = "none" THEN << >>
    ELSE HourChars(c.h, c.pad) \o (IF c.hasMin THEN MinuteChars(c.m) ELSE << >>)
         \o (IF c.sp THEN <<" ">> ELSE << >>) \o AmPmChars(c.ap)

LiteralStrings ==
    {<<"s", "o", "o", "n">>, <<"2", "5", ":", "0", "0">>, <<"9", ":", "7", "5">>,
     KwTomorrow \o <<" ", "2", "4", ":", "0", "0">>, KwToday \o <<" ", "9", ":", "6", "0">>}

TimeDescs ==
    [kw : {"tomorrow", "today", "next week", "next month"}, cap : BOOLEAN,
     clockFirst : BOOLEAN, clock : ClockDescs, lit : {<< >>}]
    \cup [kw : {"tomorrow", "today", "next week", "next month"}, cap : BOOLEAN,
          clockFirst : {FALSE}, clock : {NoClock}, lit : {<< >>}]
    \cup [kw : {"literal"}, cap : {FALSE}, clockFirst : {FALSE}, clock : {NoClock},
          lit : LiteralStrings]

TimeChars(d) ==
    LET k == IF d.cap THEN Cap(KwChars(d.kw)) ELSE KwChars(d.kw)
    IN  IF d.kw = "literal" THEN d.lit
        ELSE IF d.clock.form = "none" THEN k
        ELSE IF d.clockFirst THEN ClockChars(d.clock) \o <<" ">> \o k
        ELSE k \o <<" ", "a", "t", " ">> \o ClockChars(d.clock)

NowSamples == {DT(0, 9, 20, 30, 7), DT(3, 23, 59, 0, 0)}

\* parser.parse(time_str): raises, or returns some datetime (naive, or aware when the
\* string names a zone)
DateutilOutcomes ==
    {[ok |-> FALSE, dt |-> DT(0, 0, 0, 0, 0)],
     [ok |-> TRUE, dt |-> DT(5, 10, 0, 0, 0)],
     [ok |-> TRUE, dt |-> [DT(0, 8, 0, 0, 0) EXCEPT !.aware = TRUE]]}

NoResult == [exc |-> "pending", dt |-> DT(0, 0, 0, 0, 0)]

----------------------------------------------------------------------------
(* MemoryManager: tasks *)

\* datetime.isoformat(): the fields in order, microseconds only when not zero, the
\* offset only when aware; the text SQLite stores and compares
IsoFormat(dt) ==
    <<dt.day, dt.hour, dt.minute, dt.second>>
    \o (IF dt.micro # 0 THEN <<dt.micro>> ELSE << >>)
    \o (IF dt.aware THEN <<-1>> ELSE << >>)

\* datetime.fromisoformat()
FromIsoFormat(s) ==
    [day |-> s[1], hour |-> s[2], minute |-> s[3], second |-> s[4],
     micro |-> IF Len(s) >= 5 /\ s[5] >= 0 THEN s[5] ELSE 0,
     aware |-> s[Len(s)] = -1]

NullDue == [null |-> TRUE, iso |-> << >>]
DueOf(dt) == [null |-> FALSE, iso |-> IsoFormat(dt)]

\* due_date ASC: NULL sorts before every value, two stored texts compare as text
DueLess(a, b) ==
    LET RECURSIVE TextLess(_, _)
        TextLess(x, y) ==
            IF y = << >> THEN FALSE
            ELSE IF x = << >> THEN TRUE
            ELSE IF Head(x) # Head(y) THEN Head(x) < Head(y)
            ELSE TextLess(Tail(x), Tail(y))
    IN  IF a.null THEN ~b.null
        ELSE IF b.null THEN FALSE
        ELSE TextLess(a.iso, b.iso)

RowBeforeAscending(r1, r2) ==
    \/ r1.priority < r2.priority
    \/ r1.priority = r2.priority /\ DueLess(r1.due_date, r2.due_date)

\* ORDER BY priority DESC, due_date ASC
RowBefore(r1, r2) ==
    \/ r1.priority > r2.priority
    \/ r1.priority = r2.priority /\ DueLess(r1.due_date, r2.due_date)

\* the sorter: rows that compare equal keep their rowid order
RECURSIVE OrderRows(_)
OrderRows(rows) ==
    LET RECURSIVE InsertRow(_, _)
        InsertRow(sorted, r) ==
            IF sorted = << >> THEN <<r>>
            ELSE IF RowBefore(r, Head(sorted)) THEN <<r>> \o sorted
            ELSE <<Head(sorted)>> \o InsertRow(Tail(sorted), r)
    IN  IF rows = << >> THEN << >>
        ELSE InsertRow(OrderRows(SubSeq(rows, 1, Len(rows) - 1)), rows[Len(rows)])

\* MemoryManager.get_pending_tasks(); MemorySystem.get_pending_tasks() runs the same query
GetPendingTasks(rows) ==
    OrderRows(SelectSeq(rows, LAMBDA r : r.status = "pending"))

\* MemoryManager.store_task(task): INSERT with status DEFAULT 'pending'
StoreTaskRows(rows, title, due, priority) ==
    Append(rows, [id |-> Len(rows) + 1, title |-> title, due_date |-> due,
                  status |-> "pending", priority |-> priority])

----------------------------------------------------------------------------
(* SchedulerAgent._check_conflicts *)

InWindowExclusiveEnd(event_start, task_time, event_end) ==
    DtLE(event_start, task_time) /\ DtLess(task_time, event_end)

\* event_start <= task_time <= event_end
InWindow(event_start, task_time, event_end) ==
    DtLE(event_start, task_time) /\ DtLE(task_time, event_end)

\* the titles of the tasks that overlap [event_start, event_end], in list order;
\* a due date of the other awareness makes the comparison raise TypeError
RECURSIVE ConflictScan(_, _, _)
ConflictScan(pending, event_start, event_end) ==
    IF pending = << >> THEN [exc |-> "none", titles |-> << >>]
    ELSE LET task == Head(pending)
             rest == ConflictScan(Tail(pending), event_start, event_end)
         IN  IF task.due_date.null THEN rest
             ELSE LET task_time == FromIsoFormat(task.due_date.iso)
                  IN  IF ~DtComparable(event_start, task_time)
                      THEN [exc |-> "TypeError", titles |-> << >>]
                      ELSE IF InWindow(event_start, task_time, event_end)
                           THEN [rest EXCEPT !.titles = <<task.title>> \o rest.titles]
                           ELSE rest

\* _check_conflicts(event) given the rows get_pending_tasks returned
CheckConflicts(pending, event_start, duration) ==
    LET scan == ConflictScan(pending, event_start, AddMinutes(event_start, duration))
    IN  IF scan.exc # "none" THEN [exc |-> scan.exc, text |-> << >>]
        ELSE IF scan.titles # << >>
             THEN [exc |-> "none",
                   text |-> <<"You have '", scan.titles[1], "' scheduled at that time">>]
             ELSE [exc |-> "none", text |-> << >>]

----------------------------------------------------------------------------
(* json.loads on the text a model call returned *)

\* lexical tokens of a text
Tok(k) == [k |-> k, s |-> "", n |-> 0]
TStr(x) == [k |-> "str", s |-> x, n |-> 0]
TNum(x) == [k |-> "num", s |-> "", n |-> x]
TNull == Tok("null")
TTrue == Tok("true")
TWord(x) == [k |-> "word", s |-> x, n |-> 0]    \* bare prose, no JSON token
LBrace == Tok("{")
RBrace == Tok("}")
LBrack == Tok("[")
RBrack == Tok("]")
Colon == Tok(":")
Comma == Tok(",")

\* Python values: str, int, bool, None, dict (members in d) and list (items in d)
NoMembers == [k \in {} |-> 0]
PyValue(ty, x, n, d) == [ty |-> ty, s |-> x, n |-> n, d |-> d]
PyNone == PyValue("none", "", 0, NoMembers)
PyStr(x) == PyValue("str", x, 0, NoMembers)
PyNum(x) == PyValue("num", "", x, NoMembers)
PyTrue == PyValue("bool", "", 1, NoMembers)
PyDict(d) == PyValue("dict", "", 0, d)
PyList(items) == PyValue("list", "", 0, items)
PyEmptyDict == PyDict(NoMembers)
PyEmptyList == PyList(<< >>)
TopDict(d) == PyDict(d)
JsonError == PyValue("error", "", 0, NoMembers)

SetMember(d, key, v) == [k \in DOMAIN d \cup {key} |-> IF k = key THEN v ELSE d[k]]

NoValue(i) == [ok |-> FALSE, v |-> PyNone, next |-> i]

\* the value that starts at token i: [ok, v, next]; the members of an object from
\* token i, a repeated key keeping its last value; the items of an array from token i
RECURSIVE ValueAt(_, _), MembersAt(_, _, _), ItemsAt(_, _, _)
ValueAt(toks, i) ==
    IF i > Len(toks) THEN NoValue(i)
    ELSE IF toks[i].k = "str" THEN [ok |-> TRUE, v |-> PyStr(toks[i].s), next |-> i + 1]
    ELSE IF toks[i].k = "num" THEN [ok |-> TRUE, v |-> PyNum(toks[i].n), next |-> i + 1]
    ELSE IF toks[i].k = "null" THEN [ok |-> TRUE, v |-> PyNone, next |-> i + 1]
    ELSE IF toks[i].k = "true" THEN [ok |-> TRUE, v |-> PyTrue, next |-> i + 1]
    ELSE IF toks[i].k = "{"
         THEN IF i + 1 <= Len(toks) /\ toks[i + 1].k = "}"
              THEN [ok |-> TRUE, v |-> PyEmptyDict, next |-> i + 2]
              ELSE MembersAt(toks, i + 1, NoMembers)
    ELSE IF toks[i].k = "["
         THEN IF i + 1 <= Len(toks) /\ toks[i + 1].k = "]"
              THEN [ok |-> TRUE, v |-> PyEmptyList, next |-> i + 2]
              ELSE ItemsAt(toks, i + 1, << >>)
    ELSE NoValue(i)

MembersAt(toks, i, d) ==
    IF i + 1 > Len(toks) \/ toks[i].k # "str" \/ toks[i + 1].k # ":" THEN NoValue(i)
    ELSE LET val == ValueAt(toks, i + 2)
         IN  IF ~val.ok \/ val.next > Len(toks) THEN NoValue(i)
             ELSE IF toks[val.next].k = "}"
                  THEN [ok |-> TRUE, v |-> PyDict(SetMember(d, toks[i].s, val.v)),
                        next |-> val.next + 1]
             ELSE IF toks[val.next].k = ","
                  THEN MembersAt(toks, val.next + 1, SetMember(d, toks[i].s, val.v))
             ELSE NoValue(i)

ItemsAt(toks, i, items) ==
    LET val == ValueAt(toks, i)
    IN  IF ~val.ok \/ val.next > Len(toks) THEN NoValue(i)
        ELSE IF toks[val.next].k = "]"
             THEN [ok |-> TRUE, v |-> PyList(Append(items, val.v)), next |-> val.next + 1]
        ELSE IF toks[val.next].k = ","
             THEN ItemsAt(toks, val.next + 1, Append(items, val.v))
        ELSE NoValue(i)

\* json.loads(text): a value, or JsonError when it raises JSONDecodeError
JsonLoads(toks) ==
    LET val == ValueAt(toks, 1)
    IN  IF val.ok /\ val.next = Len(toks) + 1 THEN val.v ELSE JsonError

\* dict.get(key, default) and key in dict, on a parsed dict
HasKey(v, key) == v.ty = "dict" /\ key \in DOMAIN v.d
GetOr(v, key, default) == IF key \in DOMAIN v.d THEN v.d[key] ELSE default

\* {"k1": v1, ...} written as tokens
RECURSIVE ObjectBody(_)
ObjectBody(pairs) ==
    IF pairs = << >> THEN << >>
    ELSE <<TStr(pairs[1][1]), Colon>> \o pairs[1][2]
         \o (IF Len(pairs) > 1 THEN <<Comma>> ELSE << >>) \o ObjectBody(Tail(pairs))
Object(pairs) == <<LBrace>> \o ObjectBody(pairs) \o <<RBrace>>

----------------------------------------------------------------------------
(* SchedulerAgent: parse step *)

\* the time strings the model puts into a parsed request, as characters
TimeTextChars(x) ==
    CASE x = "tomorrow at 3pm" -> KwTomorrow \o <<" ", "a", "t", " ", "3", "p", "m">>
      [] x = "tomorrow at 2pm" -> KwTomorrow \o <<" ", "a", "t", " ", "2", "p", "m">>
      [] x = "25:00" -> <<"2", "5", ":", "0", "0">>
      [] OTHER -> <<"s", "o", "o", "n">>

NoParsedTime == [has |-> FALSE, dt |-> DT(0, 0, 0, 0, 0)]
UnknownCommand(members) == [v |-> TopDict(members), pt |-> NoParsedTime]

SchedulerSentinel == UnknownCommand([k \in {"action"} |-> PyStr("unknown")])

\* the except branch of the parse step: what it returns for the value v that failed
SchedulerOnParseError(v) == SchedulerSentinel

\* _parse_schedule_request, given the text the model returned
ParseScheduleRequest(text, t, du) ==
    LET data == JsonLoads(text)
    IN  IF data.ty = "error" THEN SchedulerOnParseError(data)
        ELSE IF data.ty \in {"none", "num", "bool"}
             THEN SchedulerOnParseError(data)           \* 'time' in data: TypeError
        ELSE IF data.ty = "list" /\ \E i \in DOMAIN data.d : data.d[i] = PyStr("time")
             THEN SchedulerOnParseError(data)           \* data['parsed_time'] = ...: TypeError
        ELSE IF data.ty # "dict" THEN [v |-> data, pt |-> NoParsedTime]
        ELSE IF "time" \notin DOMAIN data.d THEN [v |-> data, pt |-> NoParsedTime]
        ELSE IF data.d["time"].ty # "str" THEN SchedulerOnParseError(data)     \* .lower(): AttributeError
        ELSE LET r == ParseNaturalTime(TimeTextChars(data.d["time"].s), t, du)
             IN  IF r.exc # "none" THEN SchedulerOnParseError(data)
                 ELSE [v |-> data, pt |-> [has |-> TRUE, dt |-> r.dt]]

\* schedule_data.get("action") as a string; "" when absent or no string
ActionOf(cmd) ==
    IF cmd.v.ty = "dict" /\ "action" \in DOMAIN cmd.v.d /\ cmd.v.d["action"].ty = "str"
    THEN cmd.v.d["action"].s ELSE ""

----------------------------------------------------------------------------
(* SchedulerAgent: operations *)

\* strftime('%B %d at %I:%M %p')
StrfTime(dt) ==
    <<ToString(dt.day), " at ",
      ToString(IF dt.hour % 12 = 0 THEN 12 ELSE dt.hour % 12), ":", ToString(dt.minute),
      IF dt.hour < 12 THEN " AM" ELSE " PM">>

SchedulerApology(e) ==
    <<"I encountered an issue with scheduling: ", e,
      ". Let me help you set this up correctly.">>

\* {'high': 1, 'medium': 2, 'low': 3}[priority]; 0 stands for KeyError
PriorityNumber(p) ==
    IF p.ty # "str" THEN 0
    ELSE CASE p.s = "high" -> 1 [] p.s = "medium" -> 2 [] p.s = "low" -> 3 [] OTHER -> 0

Capitalize(x) ==
    CASE x = "high" -> "High" [] x = "medium" -> "Medium" [] x = "low" -> "Low" [] OTHER -> x

NewReminderDefaultTime(cmd, rs, t) ==
    [id |-> Len(rs) + 1,
     title |-> GetOr(cmd.v, "title", PyStr("Reminder")).s,
     time |-> AddMinutes(t, 60),
     priority |-> GetOr(cmd.v, "priority", PyStr("medium")),
     created_at |-> t,
     notified |-> FALSE]

\* the reminder _add_reminder builds from the parsed request
NewReminder(cmd, rs, t) ==
    [id |-> Len(rs) + 1,
     title |-> GetOr(cmd.v, "title", PyStr("Reminder")).s,
     time |-> IF cmd.pt.has THEN cmd.pt.dt ELSE AddMinutes(t, 60),
     priority |-> GetOr(cmd.v, "priority", PyStr("medium")),
     created_at |-> t,
     notified |-> FALSE]

ReminderSetText(r) ==
    <<"U+2705 ", "Reminder set", " successfully!", "\n\n**", r.title, "**\nTime: ">>
    \o StrfTime(r.time)
    \o <<"\nPriority: ", Capitalize(r.priority.s),
         "\n\nI'll notify you when it's time. Would you like to add any additional details or set another reminder?">>

IsDueAlways(r, t) == ~r.notified

\* not reminder['notified'] and reminder['time'] <= now
IsDue(r, t) == ~r.notified /\ DtLE(r.time, t)

\* one pass of the for loop of _reminder_checker over the list; the pass stops where
\* the comparison raises
RECURSIVE CheckReminders(_, _)
CheckReminders(rs, t) ==
    IF rs = << >> THEN [list |-> << >>, raised |-> FALSE]
    ELSE LET r == Head(rs)
         IN  IF ~r.notified /\ ~DtComparable(r.time, t)
             THEN [list |-> rs, raised |-> TRUE]
             ELSE LET rest == CheckReminders(Tail(rs), t)
                  IN  [list |-> <<IF IsDue(r, t) THEN [r EXCEPT !.notified = TRUE] ELSE r>>
                                 \o rest.list,
                       raised |-> rest.raised]

\* (time - now).days
DeltaDays(time, t) ==
    (time.day - t.day)
    - (IF DtLess([time EXCEPT !.day = 0], [t EXCEPT !.day = 0]) THEN 1 ELSE 0)

\* all_items.sort(key=time): a stable sort
RECURSIVE SortItems(_)
SortItems(items) ==
    LET RECURSIVE InsertItem(_, _)
        InsertItem(sorted, x) ==
            IF sorted = << >> THEN <<x>>
            ELSE IF DtLess(x.time, Head(sorted).time) THEN <<x>> \o sorted
            ELSE <<Head(sorted)>> \o InsertItem(Tail(sorted), x)
    IN  IF items = << >> THEN << >>
        ELSE InsertItem(SortItems(SubSeq(items, 1, Len(items) - 1)), items[Len(items)])

PriorityName(n) == CASE n = 1 -> "high" [] n = 2 -> "medium" [] OTHER -> "low"

ReminderItems(rs) ==
    [i \in 1..Len(SelectSeq(rs, LAMBDA r : ~r.notified)) |->
        LET r == SelectSeq(rs, LAMBDA q : ~q.notified)[i]
        IN  [title |-> r.title, time |-> r.time, type |-> "reminder",
             priority |-> r.priority.s]]

TaskItems(pending) ==
    [i \in 1..Len(SelectSeq(pending, LAMBDA r : ~r.due_date.null)) |->
        LET r == SelectSeq(pending, LAMBDA q : ~q.due_date.null)[i]
        IN  [title |-> r.title, time |-> FromIsoFormat(r.due_date.iso), type |-> "task",
             priority |-> PriorityName(r.priority)]]

RECURSIVE ItemLines(_, _)
ItemLines(items, warn) ==
    IF items = << >> THEN << >>
    ELSE LET x == Head(items)
         IN  <<IF x.type = "reminder" THEN "U+1F514 " ELSE "U+1F4CB ">>
             \o StrfTime(x.time) \o <<" - ", x.title>>
             \o (IF warn /\ x.priority = "high" THEN <<" U+26A0">> ELSE << >>)
             \o <<"\n">> \o ItemLines(Tail(items), warn)

\* _list_schedule given the rows get_pending_tasks returned: [exc, text]
ListSchedule(pending, rs, t) ==
    IF pending = << >> /\ rs = << >>
    THEN [exc |-> "none",
          text |-> <<"U+1F4C5 Your schedule is completely clear! Would you like me to help you plan your day?">>]
    ELSE LET all == ReminderItems(rs) \o TaskItems(pending)
         IN  IF \E i \in 1..Len(all) : all[i].time.aware
             THEN [exc |-> "TypeError", text |-> << >>]
             ELSE LET items == SortItems(all)
                      today == SelectSeq(items, LAMBDA x : DeltaDays(x.time, t) = 0)
                      tomorrow == SelectSeq(items, LAMBDA x : DeltaDays(x.time, t) = 1)
                      week == SelectSeq(items, LAMBDA x : DeltaDays(x.time, t) > 1
                                                          /\ DeltaDays(x.time, t) <= 7)
                  IN  [exc |-> "none",
                       text |-> <<"U+1F4C5 **Your Upcoming Schedule**\n\n">>
                          \o (IF today # << >> THEN <<"**Today:**\n">> \o ItemLines(today, TRUE) ELSE << >>)
                          \o (IF tomorrow # << >> THEN <<"\n**Tomorrow:**\n">> \o ItemLines(tomorrow, FALSE) ELSE << >>)
                          \o (IF week # << >> THEN <<"\n**This Week:**\n">> \o ItemLines(week, FALSE) ELSE << >>)
                          \o <<"\nU+1F4A1 Would you like to add anything else or shall I help you prepare for any of these?">>]

MeetingHours == <<9, 10, 11, 14, 15, 16>>

\* the slots _suggest_meeting_time tries, in order: 7 days, 6 hours each
CandidateSlots(t) ==
    [i \in 1..42 |->
        [AddDays(t, (i - 1) \div 6) EXCEPT !.hour = MeetingHours[((i - 1) % 6) + 1],
                                            !.minute = 0, !.second = 0]]

\* _suggest_meeting_time given the rows get_pending_tasks returned: [exc, text]
SuggestMeetingTime(pending, duration, t) ==
    LET busy == TaskItems(pending)
    IN  IF duration.ty # "num" THEN [exc |-> "TypeError", text |-> << >>]
        ELSE IF \E i \in 1..Len(busy) : busy[i].time.aware
             THEN [exc |-> "TypeError", text |-> << >>]
        ELSE LET free == SelectSeq(CandidateSlots(t),
                            LAMBDA slot :
                               /\ \A i \in 1..Len(busy) :
                                     ~InWindow(slot, busy[i].time, AddMinutes(slot, duration.n))
                               /\ DtLess(t, slot))
                 first == SubSeq(free, 1, IF Len(free) < 3 THEN Len(free) ELSE 3)
             IN  IF first # << >>
                 THEN [exc |-> "none",
                       text |-> <<"U+1F5D3 **Available Time Slots** (for ", ToString(duration.n),
                                  "-minute meeting):\n\n">>
                                \o (IF Len(first) >= 1 THEN <<"1. ">> \o StrfTime(first[1]) \o <<"\n">> ELSE << >>)
                                \o (IF Len(first) >= 2 THEN <<"2. ">> \o StrfTime(first[2]) \o <<"\n">> ELSE << >>)
                                \o (IF Len(first) >= 3 THEN <<"3. ">> \o StrfTime(first[3]) \o <<"\n">> ELSE << >>)
                                \o <<"\nAll these times are clear in your schedule. Which works best for you?">>]
                 ELSE [exc |-> "none",
                       text |-> <<"Your schedule is quite full! Would you like me to look at times outside business hours or next week?">>]

\* _provide_schedule_overview given the rows get_pending_tasks returned
ScheduleOverview(pending, t) ==
    <<IF t.hour < 12 THEN "Good morning!" ELSE IF t.hour < 17 THEN "Good afternoon!" ELSE "Good evening!",
      "\n\nI can help you manage your schedule efficiently. Here's what I can do:",
      "\n\nYou currently have ", ToString(Len(pending)), " items on your schedule.">>
    \o (IF pending # << >>
        THEN <<"\n\n**Next up:** ", pending[1].title>>
             \o (IF ~pending[1].due_date.null
                 THEN <<" at ">> \o StrfTime(FromIsoFormat(pending[1].due_date.iso)) ELSE << >>)
        ELSE << >>)
    \o <<"\n\nWhat would you like to schedule or review?">>

\* the entry _add_recurring_task appends
NewRecurring(cmd, t) ==
    [title |-> GetOr(cmd.v, "title", PyStr("Recurring Task")).s,
     pattern |-> GetOr(cmd.v, "recurring", PyStr("daily")),
     time |-> IF cmd.pt.has THEN cmd.pt.dt ELSE [t EXCEPT !.hour = 9, !.minute = 0],
     active |-> TRUE]

PatternDescription(x) ==
    CASE x = "daily" -> "every day" [] x = "weekly" -> "every week"
      [] x = "monthly" -> "every month" [] x = "weekdays" -> "every weekday" [] OTHER -> x

RecurringText(r) ==
    <<"U+1F504 **Recurring Task Created**\n\nTask: ", r.title, "\nFrequency: ",
      PatternDescription(r.pattern.s), "\nTime: ">> \o StrfTime(r.time)
    \o <<"\n\nI'll remind you ", PatternDescription(r.pattern.s),
         " at this time. You can modify or cancel this anytime.">>

\* the event _add_calendar_event builds; start_time is a datetime
NewEvent(cmd, t) ==
    [title |-> GetOr(cmd.v, "title", PyStr("New Event")),
     start_time |-> [ty |-> "datetime", dt |-> IF cmd.pt.has THEN cmd.pt.dt ELSE AddDays(t, 1)],
     duration |-> GetOr(cmd.v, "duration", PyNum(60))]

\* json.dumps(event): a datetime among the values is not JSON serializable
JsonDumpsRaises(event) == \E f \in DOMAIN event : event[f].ty = "datetime"

\* event.get('start_time') or event.get('time'), on the parsed request given to
\* _check_conflicts by execute: the values json.loads produced
RequestStart(cmd) ==
    LET a == GetOr(cmd.v, "start_time", PyNone)
        truthy == (a.ty = "str" /\ a.s # "") \/ (a.ty = "num" /\ a.n # 0)
    IN  IF truthy THEN a ELSE GetOr(cmd.v, "time", PyNone)

----------------------------------------------------------------------------
(* callers of the store: tasks of any priority and due date, listing, conflict check *)

MaxTasks == 2

TaskTime == DT(1, 15, 0, 0, 0)
SampleDues == {NullDue, DueOf(TaskTime), DueOf(AddDays(TaskTime, 1))}
SampleTitles == {"call Bob", "standup"}
SampleEvents ==
    {[start_time |-> TaskTime, duration |-> 60],
     [start_time |-> DT(1, 14, 0, 0, 0), duration |-> 60],
     [start_time |-> DT(1, 14, 0, 0, 0), duration |-> 59],
     [start_time |-> DT(1, 15, 1, 0, 0), duration |-> 60],
     [start_time |-> DT(2, 14, 30, 0, 0), duration |-> 60]}
NoEvent == [start_time |-> DT(0, 0, 0, 0, 0), duration |-> 0]
NoOutcome == [exc |-> "pending", text |-> << >>]

InitStoreIdle ==
    /\ tasks = << >>
    /\ st_pc = "idle"
    /\ st_out = << >>
    /\ cc_event = NoEvent
    /\ cc_out = NoOutcome

InitTimeIdle ==
    /\ pt_pc = "idle"
    /\ pt_desc = [kw |-> "literal", cap |-> FALSE, clockFirst |-> FALSE, clock |-> NoClock, lit |-> << >>]
    /\ pt_str = << >>
    /\ pt_du = [ok |-> FALSE, dt |-> DT(0, 0, 0, 0, 0)]
    /\ pt_res = NoResult

NoCommand == [v |-> JsonError, pt |-> NoParsedTime]

MaxRequests == 2

\* a request slot nobody uses, and a plugin nobody is calling
NoRequest == [pc |-> "idle", cmd |-> JsonError, seen |-> 0]
NoEventRequest ==
    [pc |-> "idle",
     event |-> [title |-> PyStr(""),
                start_time |-> [ty |-> "datetime", dt |-> DT(0, 0, 0, 0, 0)],
                duration |-> PyNum(0)],
     fail |-> "none", out |-> << >>]
NoCall == [pc |-> "idle", op |-> "none", command |-> << >>, device |-> "", state |-> PyNone,
           scene |-> "", before |-> << >>, queue |-> << >>, results |-> << >>,
           calls |-> << >>, controlled |-> << >>, active |-> 0, out |-> << >>]

\* SchedulerAgent.__init__
InitSchedulerIdle ==
    /\ reminders = << >>
    /\ recurring_tasks = << >>
    /\ chk_raised = FALSE
    /\ ev_req = [r \in 1..MaxRequests |-> NoEventRequest]

InitHandlerIdle ==
    /\ h_pc = "idle"
    /\ h_agent = "none"
    /\ h_via = "none"
    /\ h_input = ""
    /\ h_params = PyNone
    /\ h_text = << >>
    /\ h_cmd = NoCommand
    /\ h_fail = "none"
    /\ h_conflicts = NoOutcome
    /\ h_out = NoOutcome

\* AgentOrchestrator.__init__
InitOrchestratorIdle ==
    /\ o_pc = "idle"
    /\ o_input = ""
    /\ o_intent = JsonError
    /\ o_result = << >>
    /\ o_raw = << >>
    /\ o_lookups = 0
    /\ o_execs = << >>
    /\ o_gens = << >>
    /\ o_fail = "none"
    /\ o_out = NoOutcome

\* AutomationAgent.__init__
InitAutomationIdle ==
    /\ workflows = << >>
    /\ triggers = << >>
    /\ iot_devices = << >>
    /\ a_req = [r \in 1..MaxRequests |-> NoRequest]
    /\ a_log = << >>
    /\ e_runs = << >>
    /\ e_exc = "none"

\* SmartHomePlugin.__init__
InitSmartHomeIdle ==
    /\ devices = << >>
    /\ scenes = "empty"
    /\ sh = NoCall

\* the conversations table after _initialize_db
InitConversationsIdle ==
    /\ conversations = << >>
    /\ cv_out = [op |-> "none", exc |-> "none", user_input |-> << >>, leona_response |-> "",
                 context |-> "", rows |-> << >>, text |-> << >>, limit |-> 0,
                 key |-> "", value |-> PyNone]

autoVars == <<workflows, triggers, iot_devices>>
engVars == <<a_req, a_log, e_runs, e_exc>>
homeVars == <<devices, scenes, sh>>
convVars == <<conversations, cv_out>>
extVars == <<engVars, homeVars, convVars, ev_req>>
timeVars == <<pt_pc, pt_desc, pt_str, pt_du, pt_res>>
storeCall == <<st_pc, st_out, cc_event, cc_out>>
storeVars == <<tasks, storeCall>>
schedVars == <<reminders, recurring_tasks, chk_raised>>
hReq == <<h_agent, h_via, h_input, h_params, h_text, h_cmd>>
hVars == <<h_pc, hReq, h_fail, h_conflicts, h_out>>
oReq == <<o_input, o_intent, o_result, o_raw, o_lookups, o_execs, o_gens, o_fail>>
oVars == <<o_pc, oReq, o_out>>

\* store_task called with any title, due date and priority
StoreTask ==
    /\ st_pc = "idle"
    /\ Len(tasks) < MaxTasks
    /\ \E title \in SampleTitles, due \in SampleDues, priority \in {1, 2, 3} :
           tasks' = StoreTaskRows(tasks, title, due, priority)
    /\ UNCHANGED <<now, storeCall, timeVars, schedVars, hVars, oVars, autoVars, preferences, extVars>>

\* the status of a row changed from outside the core
CompleteTask ==
    /\ st_pc = "idle"
    /\ \E i \in 1..Len(tasks) :
           /\ tasks[i].status = "pending"
           /\ tasks' = [tasks EXCEPT ![i].status = "completed"]
    /\ UNCHANGED <<now, storeCall, timeVars, schedVars, hVars, oVars, autoVars, preferences, extVars>>

\* get_pending_tasks()
ListPending ==
    /\ st_pc = "idle"
    /\ st_out' = GetPendingTasks(tasks)
    /\ st_pc' = "listed"
    /\ UNCHANGED <<now, tasks, cc_event, cc_out, timeVars, schedVars, hVars, oVars, autoVars, preferences, extVars>>

\* _check_conflicts(event)
CallCheckConflicts ==
    /\ st_pc = "idle"
    /\ \E e \in SampleEvents :
           /\ cc_event' = e
           /\ cc_out' = CheckConflicts(GetPendingTasks(tasks), e.start_time, e.duration)
    /\ st_pc' = "checked"
    /\ UNCHANGED <<now, tasks, st_out, timeVars, schedVars, hVars, oVars, autoVars, preferences, extVars>>

\* the caller takes the result
StoreReturn ==
    /\ st_pc \in {"listed", "checked"}
    /\ st_pc' = "idle"
    /\ st_out' = << >>
    /\ cc_event' = NoEvent
    /\ cc_out' = NoOutcome
    /\ UNCHANGED <<now, tasks, timeVars, schedVars, hVars, oVars, autoVars, preferences, extVars>>

InitStore ==
    /\ now = DT(0, 9, 20, 30, 7)
    /\ InitStoreIdle
    /\ InitTimeIdle
    /\ InitSchedulerIdle
    /\ InitHandlerIdle
    /\ InitOrchestratorIdle
    /\ InitAutomationIdle
    /\ InitSmartHomeIdle
    /\ InitConversationsIdle
    /\ preferences = << >>

NextStore == StoreTask \/ CompleteTask \/ ListPending \/ CallCheckConflicts \/ StoreReturn

InitTime ==
    /\ now \in NowSamples
    /\ pt_pc = "input"
    /\ pt_desc \in TimeDescs
    /\ pt_str = TimeChars(pt_desc)
    /\ pt_du \in {o \in DateutilOutcomes : ~o.ok \/ pt_desc.kw = "literal"}
    /\ pt_res = NoResult
    /\ InitStoreIdle
    /\ InitSchedulerIdle
    /\ InitHandlerIdle
    /\ InitOrchestratorIdle
    /\ InitAutomationIdle
    /\ InitSmartHomeIdle
    /\ InitConversationsIdle
    /\ preferences = << >>

\* one call of _parse_natural_time(pt_str)
CallParseNaturalTime ==
    /\ pt_pc = "input"
    /\ pt_res' = ParseNaturalTime(pt_str, now, pt_du)
    /\ pt_pc' = "done"
    /\ UNCHANGED <<now, pt_desc, pt_str, pt_du, storeVars, schedVars, hVars, oVars, autoVars, preferences, extVars>>

----------------------------------------------------------------------------
(* the texts the model returns to the scheduler's parse step *)

MaxReminders == 1
MaxRecurring == 1
MaxDay == 1

UserInputs == {"remind me to call Bob tomorrow at 3pm", "what's on today"}
DirectInputs == {"remind me to call Bob tomorrow at 3pm"}

TxtProse == <<TWord("Sure"), TWord("!")>>
TxtTruncated == <<LBrace, TStr("action"), Colon>>
TxtJsonThenProse == Object(<< <<"action", <<TStr("add_reminder")>> >> >>) \o <<TWord("Done")>>
TxtEmpty == << >>
NonJsonTexts == {TxtProse, TxtTruncated, TxtJsonThenProse, TxtEmpty}

TxtReminderBob ==
    Object(<< <<"action", <<TStr("add_reminder")>> >>, <<"title", <<TStr("call Bob")>> >>,
              <<"time", <<TStr("tomorrow at 3pm")>> >>, <<"priority", <<TStr("medium")>> >> >>)
TxtReminderUrgent ==
    Object(<< <<"action", <<TStr("add_reminder")>> >>, <<"title", <<TStr("standup")>> >>,
              <<"time", <<TStr("tomorrow at 3pm")>> >>, <<"priority", <<TStr("urgent")>> >> >>)
TxtReminderSoon ==
    Object(<< <<"action", <<TStr("add_reminder")>> >>, <<"time", <<TStr("soon")>> >>,
              <<"priority", <<TStr("high")>> >> >>)
TxtReminderBare == Object(<< <<"action", <<TStr("add_reminder")>> >> >>)
TxtReminderBadClock ==
    Object(<< <<"action", <<TStr("add_reminder")>> >>, <<"time", <<TStr("25:00")>> >> >>)
TxtReminderNumberTime ==
    Object(<< <<"action", <<TStr("add_reminder")>> >>, <<"time", <<TNum(5)>> >> >>)
TxtEvent ==
    Object(<< <<"action", <<TStr("add_event")>> >>, <<"title", <<TStr("standup")>> >>,
              <<"time", <<TStr("tomorrow at 2pm")>> >>, <<"duration", <<TNum(60)>> >> >>)
TxtListSchedule == Object(<< <<"action", <<TStr("list_schedule")>> >> >>)
TxtRecurring ==
    Object(<< <<"action", <<TStr("add_recurring")>> >>, <<"title", <<TStr("standup")>> >>,
              <<"recurring", <<TStr("weekly")>> >> >>)
TxtCheckConflicts ==
    Object(<< <<"action", <<TStr("check_conflicts")>> >>,
              <<"time", <<TStr("tomorrow at 3pm")>> >> >>)
TxtSuggestTime ==
    Object(<< <<"action", <<TStr("suggest_time")>> >>, <<"duration", <<TNum(60)>> >> >>)
TxtEmptyObject == <<LBrace, RBrace>>
TxtEmptyList == <<LBrack, RBrack>>
TxtNull == <<TNull>>

ReminderTexts == {TxtReminderBob, TxtReminderUrgent, TxtReminderSoon, TxtReminderBare}

\* what the model may answer to the scheduler's parse prompt; requests that would grow a
\* collection past its bound are left out
SchedulerTexts ==
    NonJsonTexts
    \cup {TxtReminderBadClock, TxtReminderNumberTime, TxtEvent, TxtListSchedule,
          TxtCheckConflicts, TxtSuggestTime, TxtEmptyObject, TxtEmptyList, TxtNull}
    \cup (IF Len(reminders) < MaxReminders /\ Len(tasks) < MaxTasks THEN ReminderTexts ELSE {})
    \cup (IF Len(recurring_tasks) < MaxRecurring THEN {TxtRecurring} ELSE {})

\* the outcomes of parser.parse for the time string of a text
DateutilFor(text) ==
    IF text = TxtReminderSoon THEN DateutilOutcomes
    ELSE {[ok |-> FALSE, dt |-> DT(0, 0, 0, 0, 0)]}

----------------------------------------------------------------------------
(* a handler's execute, step by step *)

\* execute(user_input) called on a handler directly, parameters left at None
BeginExecute(agent, via, input, params) ==
    /\ h_pc = "idle"
    /\ h_pc' = "parse"
    /\ h_agent' = agent
    /\ h_via' = via
    /\ h_input' = input
    /\ h_params' = params
    /\ h_text' = << >>
    /\ h_cmd' = NoCommand
    /\ h_fail' = "none"
    /\ h_conflicts' = NoOutcome
    /\ h_out' = NoOutcome

\* the handler is left: nothing of the call remains
HandlerIdle ==
    /\ h_pc' = "idle"
    /\ h_agent' = "none"
    /\ h_via' = "none"
    /\ h_input' = ""
    /\ h_params' = PyNone
    /\ h_text' = << >>
    /\ h_cmd' = NoCommand
    /\ h_fail' = "none"
    /\ h_conflicts' = NoOutcome
    /\ h_out' = NoOutcome

Finish(text) ==
    /\ h_pc' = "done"
    /\ h_out' = [exc |-> "none", text |-> text]

Raise(e) ==
    /\ h_pc' = "raised"
    /\ h_out' = [exc |-> e, text |-> << >>]

SchedulerExecute ==
    /\ o_pc = "idle"
    /\ \E input \in DirectInputs : BeginExecute("scheduler", "direct", input, PyNone)
    /\ UNCHANGED <<now, timeVars, storeVars, schedVars, oVars, autoVars, preferences, extVars>>

\* the parse step's self.llm.generate(prompt) raises: the call is outside every try
ModelFailsInParse ==
    /\ h_pc = "parse"
    /\ Raise("ModelError")
    /\ h_fail' = "model"
    /\ UNCHANGED <<now, timeVars, storeVars, schedVars, hReq, h_conflicts, oVars, autoVars, preferences, extVars>>

\* _parse_schedule_request: the model answers, the answer is parsed
SchedulerParse ==
    /\ h_pc = "parse" /\ h_agent = "scheduler"
    /\ \E text \in SchedulerTexts :
         \E du \in DateutilFor(text) :
           /\ h_text' = text
           /\ h_cmd' = ParseScheduleRequest(text, now, du)
    /\ h_pc' = "dispatch"
    /\ UNCHANGED <<now, timeVars, storeVars, schedVars, h_agent, h_via, h_input, h_params,
                   h_fail, h_conflicts, h_out, oVars, autoVars, preferences, extVars>>

Dispatching(agent) == h_pc = "dispatch" /\ h_agent = agent

\* schedule_data.get on a value that is no dict: AttributeError inside the try
SchedulerBadCommand ==
    /\ Dispatching("scheduler") /\ h_cmd.v.ty # "dict"
    /\ Finish(SchedulerApology("AttributeError"))
    /\ UNCHANGED <<now, timeVars, storeVars, schedVars, hReq, h_fail, h_conflicts, oVars, autoVars, preferences, extVars>>

\* _add_reminder
SchedulerAddReminder ==
    /\ Dispatching("scheduler") /\ h_cmd.v.ty = "dict" /\ ActionOf(h_cmd) = "add_reminder"
    /\ LET r == NewReminder(h_cmd, reminders, now)
       IN  /\ reminders' = Append(reminders, r)
           /\ IF PriorityNumber(r.priority) = 0
              THEN /\ Finish(SchedulerApology("KeyError"))
                   /\ UNCHANGED <<tasks, h_fail>>
              ELSE \E stored \in BOOLEAN :
                     IF stored
                     THEN /\ tasks' = StoreTaskRows(tasks, r.title, DueOf(r.time),
                                                    PriorityNumber(r.priority))
                          /\ Finish(ReminderSetText(r))
                          /\ UNCHANGED h_fail
                     ELSE /\ Finish(SchedulerApology("OperationalError"))
                          /\ h_fail' = "store"
                          /\ UNCHANGED tasks
    /\ UNCHANGED <<now, timeVars, storeCall, recurring_tasks, chk_raised, hReq, h_conflicts, oVars, autoVars, preferences, extVars>>

\* _add_calendar_event: the conflict check runs, then json.dumps(event) raises before
\* store_task is called
SchedulerAddEvent ==
    /\ Dispatching("scheduler") /\ h_cmd.v.ty = "dict" /\ ActionOf(h_cmd) = "add_event"
    /\ LET event == NewEvent(h_cmd, now)
       IN  \E listed \in BOOLEAN :
             IF ~listed
             THEN /\ Finish(SchedulerApology("OperationalError"))
                  /\ h_fail' = "store"
                  /\ UNCHANGED h_conflicts
             ELSE IF event.duration.ty # "num"
             THEN /\ Finish(SchedulerApology("TypeError"))
                  /\ UNCHANGED <<h_fail, h_conflicts>>
             ELSE LET c == CheckConflicts(GetPendingTasks(tasks), event.start_time.dt,
                                          event.duration.n)
                  IN  /\ h_conflicts' = c
                      /\ UNCHANGED h_fail
                      /\ IF c.exc # "none" THEN Finish(SchedulerApology(c.exc))
                         ELSE IF JsonDumpsRaises(event)
                         THEN Finish(SchedulerApology("TypeError"))
                         ELSE Finish(<<"U+1F4C5 **Event Created: ", event.title.s, "**">>)
    /\ UNCHANGED <<now, timeVars, storeVars, schedVars, hReq, oVars, autoVars, preferences, extVars>>

\* _list_schedule
SchedulerListSchedule ==
    /\ Dispatching("scheduler") /\ h_cmd.v.ty = "dict" /\ ActionOf(h_cmd) = "list_schedule"
    /\ \E listed \in BOOLEAN :
         IF ~listed
         THEN /\ Finish(SchedulerApology("OperationalError"))
              /\ h_fail' = "store"
         ELSE LET r == ListSchedule(GetPendingTasks(tasks), reminders, now)
              IN  /\ Finish(IF r.exc = "none" THEN r.text ELSE SchedulerApology(r.exc))
                  /\ UNCHANGED h_fail
    /\ UNCHANGED <<now, timeVars, storeVars, schedVars, hReq, h_conflicts, oVars, autoVars, preferences, extVars>>

\* _add_recurring_task
SchedulerAddRecurring ==
    /\ Dispatching("scheduler") /\ h_cmd.v.ty = "dict" /\ ActionOf(h_cmd) = "add_recurring"
    /\ LET r == NewRecurring(h_cmd, now)
       IN  /\ recurring_tasks' = Append(recurring_tasks, r)
           /\ Finish(IF r.pattern.ty = "str" THEN RecurringText(r)
                     ELSE SchedulerApology("TypeError"))
    /\ UNCHANGED <<now, timeVars, storeVars, reminders, chk_raised, hReq, h_fail, h_conflicts, oVars, autoVars, preferences, extVars>>

\* _check_conflicts(schedule_data): the start is a value of the parsed request, and
\* adding a timedelta to anything but a datetime raises TypeError
SchedulerCheckConflicts ==
    /\ Dispatching("scheduler") /\ h_cmd.v.ty = "dict" /\ ActionOf(h_cmd) = "check_conflicts"
    /\ \E listed \in BOOLEAN :
         IF ~listed
         THEN /\ Finish(SchedulerApology("OperationalError"))
              /\ h_fail' = "store"
         ELSE /\ Finish(IF RequestStart(h_cmd).ty # "datetime"
                        THEN SchedulerApology("TypeError")
                        ELSE <<"unreachable">>)
              /\ UNCHANGED h_fail
    /\ UNCHANGED <<now, timeVars, storeVars, schedVars, hReq, h_conflicts, oVars, autoVars, preferences, extVars>>

\* _suggest_meeting_time
SchedulerSuggestTime ==
    /\ Dispatching("scheduler") /\ h_cmd.v.ty = "dict" /\ ActionOf(h_cmd) = "suggest_time"
    /\ \E listed \in BOOLEAN :
         IF ~listed
         THEN /\ Finish(SchedulerApology("OperationalError"))
              /\ h_fail' = "store"
         ELSE LET r == SuggestMeetingTime(GetPendingTasks(tasks),
                                          GetOr(h_cmd.v, "duration", PyNum(60)), now)
              IN  /\ Finish(IF r.exc = "none" THEN r.text ELSE SchedulerApology(r.exc))
                  /\ UNCHANGED h_fail
    /\ UNCHANGED <<now, timeVars, storeVars, schedVars, hReq, h_conflicts, oVars, autoVars, preferences, extVars>>

SchedulerActions ==
    {"add_reminder", "add_event", "list_schedule", "add_recurring", "check_conflicts",
     "suggest_time"}

\* the else branch: _provide_schedule_overview
SchedulerOverview ==
    /\ Dispatching("scheduler") /\ h_cmd.v.ty = "dict" /\ ActionOf(h_cmd) \notin SchedulerActions
    /\ \E listed \in BOOLEAN :
         IF ~listed
         THEN /\ Finish(SchedulerApology("OperationalError"))
              /\ h_fail' = "store"
         ELSE /\ Finish(ScheduleOverview(GetPendingTasks(tasks), now))
              /\ UNCHANGED h_fail
    /\ UNCHANGED <<now, timeVars, storeVars, schedVars, hReq, h_conflicts, oVars, autoVars, preferences, extVars>>

\* the direct caller takes what execute returned or raised
ExecuteReturns ==
    /\ h_pc \in {"done", "raised"} /\ h_via = "direct"
    /\ HandlerIdle
    /\ UNCHANGED <<now, timeVars, storeVars, schedVars, oVars, autoVars, preferences, extVars>>

\* one iteration of _reminder_checker
ReminderChecker ==
    /\ reminders' = CheckReminders(reminders, now).list
    /\ chk_raised' = CheckReminders(reminders, now).raised
    /\ UNCHANGED <<now, timeVars, storeVars, recurring_tasks, hVars, oVars, autoVars, preferences, extVars>>

\* time passes
Tick ==
    /\ now.day < MaxDay
    /\ now' = AddMinutes(now, 1800)
    /\ UNCHANGED <<timeVars, storeVars, schedVars, hVars, oVars, autoVars, preferences, extVars>>

SchedulerSteps ==
    \/ SchedulerParse \/ SchedulerBadCommand \/ SchedulerAddReminder \/ SchedulerAddEvent
    \/ SchedulerListSchedule \/ SchedulerAddRecurring \/ SchedulerCheckConflicts
    \/ SchedulerSuggestTime \/ SchedulerOverview

InitSched ==
    /\ now = DT(0, 9, 20, 30, 7)
    /\ InitTimeIdle
    /\ InitStoreIdle
    /\ InitSchedulerIdle
    /\ InitHandlerIdle
    /\ InitOrchestratorIdle
    /\ InitAutomationIdle
    /\ InitSmartHomeIdle
    /\ InitConversationsIdle
    /\ preferences = << >>

NextSched ==
    \/ SchedulerExecute \/ ModelFailsInParse \/ SchedulerSteps \/ ExecuteReturns
    \/ ReminderChecker \/ Tick

vars == <<now, timeVars, storeVars, schedVars, hVars, oVars, autoVars, preferences, extVars>>

NextTime == CallParseNaturalTime
SpecTime == InitTime /\ [][NextTime]_vars
SpecStore == InitStore /\ [][NextStore]_vars
SpecSched == InitSched /\ [][NextSched]_vars

----------------------------------------------------------------------------
(* values of a parsed command, as the handlers read them *)

\* value[key]: [exc, v]
Item(v, key) ==
    IF v.ty # "dict" THEN [exc |-> "TypeError", v |-> PyNone]
    ELSE IF key \notin DOMAIN v.d THEN [exc |-> "KeyError", v |-> PyNone]
    ELSE [exc |-> "none", v |-> v.d[key]]

\* str(value), as an f-string renders it
PyText(v) ==
    CASE v.ty = "str" -> v.s
      [] v.ty = "num" -> ToString(v.n)
      [] v.ty = "none" -> "None"
      [] v.ty = "bool" -> "True"
      [] v.ty = "dict" -> IF DOMAIN v.d = {} THEN "{}" ELSE "{...}"
      [] v.ty = "list" -> IF v.d = << >> THEN "[]" ELSE "[...]"
      [] OTHER -> ""

\* bool(value)
Truthy(v) ==
    CASE v.ty = "str" -> v.s # ""
      [] v.ty \in {"num", "bool"} -> v.n # 0
      [] v.ty \in {"dict", "list"} -> DOMAIN v.d # {}
      [] OTHER -> FALSE

\* command[key] == name
ItemIs(v, key, name) == Item(v, key).exc = "none" /\ Item(v, key).v = PyStr(name)

PlainCommand(v) == [v |-> v, pt |-> NoParsedTime]

\* the outcomes of a call on the file system, a subprocess or the network
Outcomes == {"ok", "error"}

\* the text a model call made inside an operation returns
SummaryText == <<"A", " ", "s", "u", "m", "m", "a", "r", "y", ".">>

----------------------------------------------------------------------------
(* FileAgent *)

FileSentinel ==
    TopDict([k \in {"action", "parameters"} |->
                IF k = "action" THEN PyStr("unknown") ELSE PyEmptyDict])

FileOnParseErrorEmpty(v) == TopDict(NoMembers)

\* the except branch of _parse_operation
FileOnParseError(v) == FileSentinel

\* _parse_operation, given the text the model returned
ParseOperation(text) ==
    LET data == JsonLoads(text)
    IN  IF data.ty = "error" THEN FileOnParseError(data) ELSE data

FileApology(e) ==
    <<"I encountered an issue with the file operation: ", e, ". Let me help you resolve this.">>

\* filename.endswith(suffix), for the file names the model puts into a request
EndsWith(name, suffix) ==
    CASE name = "notes.md" -> suffix = ".md"
      [] name = "data.json" -> suffix = ".json"
      [] OTHER -> FALSE

FileTexts ==
    NonJsonTexts
    \cup {Object(<< <<"action", <<TStr("create")>> >>, <<"filename", <<TStr("notes.md")>> >> >>),
          Object(<< <<"action", <<TStr("create")>> >>, <<"filename", <<TNum(5)>> >> >>),
          Object(<< <<"action", <<TStr("create")>> >>, <<"content", <<TNull>> >> >>),
          Object(<< <<"action", <<TStr("read")>> >>, <<"filename", <<TStr("notes.md")>> >> >>),
          Object(<< <<"action", <<TStr("read")>> >> >>),
          Object(<< <<"action", <<TStr("organize")>> >> >>),
          Object(<< <<"action", <<TStr("search")>> >>, <<"query", <<TStr("notes")>> >> >>),
          Object(<< <<"action", <<TStr("backup")>> >>, <<"source", <<TNum(5)>> >> >>),
          Object(<< <<"action", <<TStr("backup")>> >> >>),
          Object(<< <<"action", <<TStr("analyze")>> >> >>),
          Object(<< <<"action", <<TStr("delete")>> >> >>),
          Object(<< <<"filename", <<TStr("notes.md")>> >> >>),
          TxtEmptyList, TxtNull}

\* _parse_operation: the model answers, the answer is parsed
FileParse ==
    /\ h_pc = "parse" /\ h_agent = "file"
    /\ \E text \in FileTexts :
         /\ h_text' = text
         /\ h_cmd' = PlainCommand(ParseOperation(text))
    /\ h_pc' = "dispatch"
    /\ UNCHANGED <<now, timeVars, storeVars, schedVars, h_agent, h_via, h_input, h_params,
                   h_fail, h_conflicts, h_out, oVars, autoVars, preferences, extVars>>

\* what every step of the file handler's dispatch leaves alone
FileFrame ==
    UNCHANGED <<now, timeVars, storeVars, schedVars, hReq, h_conflicts, oVars, autoVars, preferences, extVars>>

\* a call on the file system raised inside the try of execute
FileSystemFails ==
    /\ Finish(FileApology("OSError"))
    /\ h_fail' = "file"

\* operation["action"] raises inside the try
FileBadCommand ==
    /\ Dispatching("file") /\ Item(h_cmd.v, "action").exc # "none"
    /\ Finish(FileApology(Item(h_cmd.v, "action").exc))
    /\ UNCHANGED h_fail
    /\ FileFrame

\* _create_file
FileCreate ==
    /\ Dispatching("file") /\ ItemIs(h_cmd.v, "action", "create")
    /\ LET filename == GetOr(h_cmd.v, "filename", PyStr("document.txt"))
           content == IF filename.ty = "str" /\ (EndsWith(filename.s, ".md") \/ EndsWith(filename.s, ".json"))
                      THEN PyStr("generated")
                      ELSE GetOr(h_cmd.v, "content", PyStr(""))
       IN  IF filename.ty # "str" \/ content.ty # "str"
           THEN Finish(FileApology("TypeError")) /\ UNCHANGED h_fail
           ELSE \E fs \in Outcomes :
                  IF fs = "error" THEN FileSystemFails
                  ELSE /\ Finish(<<"U+2728 I've created '", filename.s, "' in your workspace.">>)
                       /\ UNCHANGED h_fail
    /\ FileFrame

\* _read_file
FileRead ==
    /\ Dispatching("file") /\ ItemIs(h_cmd.v, "action", "read")
    /\ LET filename == GetOr(h_cmd.v, "filename", PyNone)
           NotFound == <<"I couldn't locate '", PyText(filename), "'.">>
           Unreadable == <<"I can see the file but encountered an issue reading it.">>
       IN  IF ~Truthy(filename) THEN Finish(NotFound) /\ UNCHANGED h_fail
           ELSE IF filename.ty # "str" THEN Finish(FileApology("TypeError")) /\ UNCHANGED h_fail
           ELSE \E exists \in BOOLEAN, fs \in Outcomes, llm \in Outcomes :
                  IF ~exists THEN Finish(NotFound) /\ UNCHANGED h_fail
                  ELSE IF fs = "error" THEN Finish(Unreadable) /\ h_fail' = "file"
                  ELSE IF llm = "error" THEN Finish(Unreadable) /\ h_fail' = "model"
                  ELSE /\ Finish(<<"U+1F4C4 **", filename.s, "**\n\nSummary: ">> \o SummaryText)
                       /\ UNCHANGED h_fail
    /\ FileFrame

\* an operation on a directory the request names under key, the workspace by default:
\* Path(value) raises TypeError on anything but a string, a call on the file system may
\* raise, and n is the number of files the operation found
FileDirectoryOp(name, key, text) ==
    /\ Dispatching("file") /\ ItemIs(h_cmd.v, "action", name)
    /\ IF GetOr(h_cmd.v, key, PyStr("LEONA_Workspace")).ty # "str"
       THEN Finish(FileApology("TypeError")) /\ UNCHANGED h_fail
       ELSE \E fs \in Outcomes, n \in {0, 2} :
              IF fs = "error" THEN FileSystemFails
              ELSE Finish(text[n]) /\ UNCHANGED h_fail
    /\ FileFrame

\* _organize_files
FileOrganize ==
    FileDirectoryOp("organize", "directory",
                    [n \in {0, 2} |-> <<"U+2728 Successfully organized ", ToString(n), " files into categories.">>])

\* _search_files
FileSearch ==
    FileDirectoryOp("search", "directory",
                    [n \in {0, 2} |->
                       IF n = 0
                       THEN <<"I couldn't find any files matching '", PyText(GetOr(h_cmd.v, "query", PyStr(""))), "'.">>
                       ELSE <<"U+1F4C1 Found ", ToString(n), " files matching '",
                              PyText(GetOr(h_cmd.v, "query", PyStr(""))), "':\n\n">>])

\* _backup_files
FileBackup ==
    FileDirectoryOp("backup", "source",
                    [n \in {0, 2} |-> <<"U+2705 Backup complete! I've secured ", ToString(n), " files">>])

\* _analyze_directory; n = 0 stands for a directory that does not exist
FileAnalyze ==
    FileDirectoryOp("analyze", "directory",
                    [n \in {0, 2} |->
                       IF n = 0 THEN <<"The directory '", "LEONA_Workspace", "' doesn't exist.">>
                       ELSE <<"U+1F4CA **Directory Analysis: ", "LEONA_Workspace", "**">>])

FileActions == {"create", "read", "organize", "search", "backup", "analyze"}

\* the else branch: _suggest_file_action
FileSuggest ==
    /\ Dispatching("file") /\ Item(h_cmd.v, "action").exc = "none"
    /\ \A a \in FileActions : ~ItemIs(h_cmd.v, "action", a)
    /\ Finish(<<"I can help you with various file operations:">>)
    /\ UNCHANGED h_fail
    /\ FileFrame

FileSteps ==
    \/ FileParse \/ FileBadCommand \/ FileCreate \/ FileRead \/ FileOrganize \/ FileSearch
    \/ FileBackup \/ FileAnalyze \/ FileSuggest

----------------------------------------------------------------------------
(* SystemAgent *)

SystemSentinel ==
    TopDict([k \in {"action", "target"} |-> IF k = "action" THEN PyStr("unknown") ELSE PyStr("")])

\* the except branch of _parse_command
SystemOnParseError(v) == SystemSentinel

\* _parse_command, given the text the model returned
ParseCommand(text) ==
    LET data == JsonLoads(text)
    IN  IF data.ty = "error" THEN SystemOnParseError(data) ELSE data

\* script_path.startswith(os.path.expanduser("~/leona_scripts"))
InApprovedDir(path) == path = "/home/user/leona_scripts/backup.sh"

SystemTexts ==
    NonJsonTexts
    \cup {Object(<< <<"action", <<TStr("open_app")>> >>, <<"target", <<TStr("notes")>> >> >>),
          Object(<< <<"action", <<TStr("open_app")>> >> >>),
          Object(<< <<"action", <<TStr("search_files")>> >>, <<"query", <<TStr("notes")>> >> >>),
          Object(<< <<"action", <<TStr("search_files")>> >>, <<"query", <<TNum(5)>> >> >>),
          Object(<< <<"action", <<TStr("run_script")>> >>,
                    <<"script", <<TStr("/home/user/leona_scripts/backup.sh")>> >> >>),
          Object(<< <<"action", <<TStr("run_script")>> >>, <<"script", <<TStr("/tmp/x.sh")>> >> >>),
          Object(<< <<"action", <<TStr("run_script")>> >>, <<"script", <<TNull>> >> >>),
          Object(<< <<"action", <<TStr("shutdown")>> >> >>),
          TxtEmptyObject, TxtEmptyList, TxtNull}

\* _parse_command: the model answers, the answer is parsed
SystemParse ==
    /\ h_pc = "parse" /\ h_agent = "system"
    /\ \E text \in SystemTexts :
         /\ h_text' = text
         /\ h_cmd' = PlainCommand(ParseCommand(text))
    /\ h_pc' = "dispatch"
    /\ UNCHANGED <<now, timeVars, storeVars, schedVars, h_agent, h_via, h_input, h_params,
                   h_fail, h_conflicts, h_out, oVars, autoVars, preferences, extVars>>

SystemFrame ==
    UNCHANGED <<now, timeVars, storeVars, schedVars, hReq, h_conflicts, oVars, autoVars, preferences, extVars>>

\* command["action"] raises: execute has no try
SystemBadCommand ==
    /\ Dispatching("system") /\ Item(h_cmd.v, "action").exc # "none"
    /\ Raise(Item(h_cmd.v, "action").exc)
    /\ UNCHANGED h_fail
    /\ SystemFrame

\* _open_application(command["target"])
SystemOpenApp ==
    /\ Dispatching("system") /\ ItemIs(h_cmd.v, "action", "open_app")
    /\ LET target == Item(h_cmd.v, "target")
       IN  IF target.exc # "none" THEN Raise(target.exc) /\ UNCHANGED h_fail
           ELSE \E popen \in Outcomes :
                  IF popen = "error"
                  THEN /\ Finish(<<"I encountered an issue opening ", PyText(target.v), ".">>)
                       /\ h_fail' = "subprocess"
                  ELSE /\ Finish(<<"I've opened ", PyText(target.v), " for you.">>)
                       /\ UNCHANGED h_fail
    /\ SystemFrame

\* _search_files(command["query"]): the walk and query.lower() are inside its try
SystemSearchFiles ==
    /\ Dispatching("system") /\ ItemIs(h_cmd.v, "action", "search_files")
    /\ LET query == Item(h_cmd.v, "query")
           Issue == <<"I encountered an issue while searching.">>
       IN  IF query.exc # "none" THEN Raise(query.exc) /\ UNCHANGED h_fail
           ELSE \E fs \in Outcomes, n \in {0, 2} :
                  IF fs = "error" THEN Finish(Issue) /\ h_fail' = "file"
                  ELSE /\ UNCHANGED h_fail
                       /\ IF n = 0
                          THEN Finish(<<"I couldn't find any files matching '", PyText(query.v), "'.">>)
                          ELSE IF query.v.ty # "str" THEN Finish(Issue)
                          ELSE Finish(<<"I found ", ToString(n), " files matching '", query.v.s, "':\n">>)
    /\ SystemFrame

\* _run_script(command["script"]): startswith is called before its try
SystemRunScript ==
    /\ Dispatching("system") /\ ItemIs(h_cmd.v, "action", "run_script")
    /\ LET script == Item(h_cmd.v, "script")
       IN  IF script.exc # "none" THEN Raise(script.exc) /\ UNCHANGED h_fail
           ELSE IF script.v.ty # "str" THEN Raise("AttributeError") /\ UNCHANGED h_fail
           ELSE IF ~InApprovedDir(script.v.s)
           THEN /\ Finish(<<"For security reasons, I can only run scripts from approved directories.">>)
                /\ UNCHANGED h_fail
           ELSE \E run \in {"ok", "timeout", "error"} :
                  CASE run = "ok" ->
                         Finish(<<"Script executed successfully. Output:\n">>) /\ UNCHANGED h_fail
                    [] run = "timeout" ->
                         /\ Finish(<<"The script took too long to execute. I've stopped it for safety.">>)
                         /\ h_fail' = "subprocess"
                    [] OTHER ->
                         /\ Finish(<<"I couldn't run the script.">>)
                         /\ h_fail' = "subprocess"
    /\ SystemFrame

SystemActions == {"open_app", "search_files", "run_script"}

\* the else branch
SystemOther ==
    /\ Dispatching("system") /\ Item(h_cmd.v, "action").exc = "none"
    /\ \A a \in SystemActions : ~ItemIs(h_cmd.v, "action", a)
    /\ Finish(<<"I understand you want to interact with the system, but I need more specific instructions.">>)
    /\ UNCHANGED h_fail
    /\ SystemFrame

SystemSteps ==
    \/ SystemParse \/ SystemBadCommand \/ SystemOpenApp \/ SystemSearchFiles
    \/ SystemRunScript \/ SystemOther

----------------------------------------------------------------------------
(* WebAgent *)

\* the except branch of _parse_web_request: a search for the user's words
WebOnParseError(v, user_input) ==
    TopDict([k \in {"action", "query"} |-> IF k = "action" THEN PyStr("search") ELSE PyStr(user_input)])

\* _parse_web_request, given the text the model returned
ParseWebRequest(text, user_input) ==
    LET data == JsonLoads(text)
    IN  IF data.ty = "error" THEN WebOnParseError(data, user_input) ELSE data

WebApology(e) ==
    <<"I encountered an issue accessing web content: ", e, ". Let me try an alternative approach.">>

\* the keys of a dict as a sequence
Keys(d) ==
    LET RECURSIVE KeysOf(_)
        KeysOf(ks) ==
            IF ks = {} THEN << >>
            ELSE LET k == CHOOSE x \in ks : TRUE IN <<k>> \o KeysOf(ks \ {k})
    IN  KeysOf(DOMAIN d)

RECURSIVE ArrayBody(_)
ArrayBody(parts) ==
    IF parts = << >> THEN << >>
    ELSE parts[1] \o (IF Len(parts) > 1 THEN <<Comma>> ELSE << >>) \o ArrayBody(Tail(parts))

\* json.dumps of a value that json.loads produced
RECURSIVE JsonDumps(_)
JsonDumps(v) ==
    CASE v.ty = "str" -> <<TStr(v.s)>>
      [] v.ty = "num" -> <<TNum(v.n)>>
      [] v.ty = "bool" -> <<TTrue>>
      [] v.ty \in {"dict", "list"} /\ DOMAIN v.d = {} ->
             IF v.ty = "dict" THEN <<LBrace, RBrace>> ELSE <<LBrack, RBrack>>
      [] v.ty = "dict" ->
             Object([i \in 1..Cardinality(DOMAIN v.d) |->
                        LET k == Keys(v.d)[i] IN <<k, JsonDumps(v.d[k])>>])
      [] v.ty = "list" ->
             <<LBrack>> \o ArrayBody([i \in DOMAIN v.d |-> JsonDumps(v.d[i])]) \o <<RBrack>>
      [] OTHER -> <<TNull>>

\* the monitor_config of _monitor_website, as update_preference serialises it
MonitorConfig(config) ==
    Object(<< <<"url", JsonDumps(GetOr(config, "url", PyNone))>>,
              <<"frequency", JsonDumps(GetOr(config, "frequency", PyStr("daily")))>>,
              <<"keywords", JsonDumps(GetOr(config, "keywords", PyEmptyList))>>,
              <<"notify_changes", <<TTrue>> >> >>)

\* INSERT OR REPLACE INTO preferences: a row with the key is deleted, the new row is added
InsertOrIgnorePreference(rows, key, value) ==
    IF \E i \in 1..Len(rows) : rows[i].key = key THEN rows
    ELSE rows \o <<[key |-> key, value |-> value]>>
UpdatePreference(rows, key, value) ==
    SelectSeq(rows, LAMBDA r : r.key # key) \o <<[key |-> key, value |-> value]>>

WebTexts ==
    NonJsonTexts
    \cup {Object(<< <<"action", <<TStr("search")>> >>, <<"query", <<TStr("weather")>> >> >>),
          Object(<< <<"action", <<TStr("search")>> >>, <<"query", <<TNull>> >> >>),
          Object(<< <<"action", <<TStr("fetch_page")>> >>, <<"url", <<TStr("example.com")>> >> >>),
          Object(<< <<"action", <<TStr("fetch_page")>> >> >>),
          Object(<< <<"action", <<TStr("summarize")>> >>, <<"url", <<TStr("example.com")>> >> >>),
          Object(<< <<"action", <<TStr("summarize")>> >>, <<"url", <<TNum(5)>> >> >>),
          Object(<< <<"action", <<TStr("research")>> >>, <<"topic", <<TStr("tla")>> >> >>),
          Object(<< <<"action", <<TStr("research")>> >> >>),
          Object(<< <<"action", <<TStr("monitor")>> >>, <<"url", <<TStr("example.com")>> >> >>),
          Object(<< <<"action", <<TStr("monitor")>> >>, <<"keywords", <<TNum(5)>> >> >>),
          Object(<< <<"action", <<TStr("bookmark")>> >> >>),
          TxtEmptyObject, TxtNull}

\* _parse_web_request: the model answers, the answer is parsed
WebParse ==
    /\ h_pc = "parse" /\ h_agent = "web"
    /\ \E text \in WebTexts :
         /\ h_text' = text
         /\ h_cmd' = PlainCommand(ParseWebRequest(text, h_input))
    /\ h_pc' = "dispatch"
    /\ UNCHANGED <<now, timeVars, storeVars, schedVars, h_agent, h_via, h_input, h_params,
                   h_fail, h_conflicts, h_out, oVars, autoVars, preferences, extVars>>

WebFrame ==
    UNCHANGED <<now, timeVars, storeVars, schedVars, hReq, h_conflicts, oVars, autoVars,
                extVars>>

\* the model raises in an operation, outside the operation's own try
WebModelFails ==
    /\ Finish(WebApology("ModelError"))
    /\ h_fail' = "model"

\* web_action['action'] raises inside the try
WebBadCommand ==
    /\ Dispatching("web") /\ Item(h_cmd.v, "action").exc # "none"
    /\ Finish(WebApology(Item(h_cmd.v, "action").exc))
    /\ UNCHANGED <<h_fail, preferences, extVars>>
    /\ WebFrame

\* _search_web(web_action['query']): quote(query) is called before its try
WebSearch ==
    /\ Dispatching("web") /\ ItemIs(h_cmd.v, "action", "search")
    /\ LET query == Item(h_cmd.v, "query")
       IN  IF query.exc # "none" THEN Finish(WebApology(query.exc)) /\ UNCHANGED h_fail
           ELSE IF query.v.ty # "str" THEN Finish(WebApology("TypeError")) /\ UNCHANGED h_fail
           ELSE \E net \in Outcomes, n \in {0, 2} :
                  IF net = "error"
                  THEN Finish(<<"I encountered an issue searching.">>) /\ h_fail' = "network"
                  ELSE /\ UNCHANGED h_fail
                       /\ IF n = 0
                          THEN Finish(<<"I couldn't find results for '", query.v.s, "'.">>)
                          ELSE Finish(<<"U+1F50D **Search Results for '", query.v.s, "':**\n\n">>)
    /\ UNCHANGED preferences
    /\ WebFrame

\* _fetch_webpage(web_action['url']): url.startswith is called before its try, the
\* request and the summarising model call are inside it
WebFetchPage ==
    /\ Dispatching("web") /\ ItemIs(h_cmd.v, "action", "fetch_page")
    /\ LET url == Item(h_cmd.v, "url")
       IN  IF url.exc # "none" THEN Finish(WebApology(url.exc)) /\ UNCHANGED h_fail
           ELSE IF url.v.ty # "str" THEN Finish(WebApology("AttributeError")) /\ UNCHANGED h_fail
           ELSE \E net \in Outcomes, llm \in Outcomes :
                  IF net = "error"
                  THEN Finish(<<"I couldn't access ", "https://", url.v.s, ".">>) /\ h_fail' = "network"
                  ELSE IF llm = "error"
                  THEN Finish(<<"I couldn't access ", "https://", url.v.s, ".">>) /\ h_fail' = "model"
                  ELSE /\ Finish(<<"U+1F4C4 **Webpage Summary**", "https://", url.v.s>> \o SummaryText)
                       /\ UNCHANGED h_fail
    /\ UNCHANGED preferences
    /\ WebFrame

\* _summarize_article(web_action['url']): the page is fetched as above, then the model
\* is called outside any try of the operation
WebSummarize ==
    /\ Dispatching("web") /\ ItemIs(h_cmd.v, "action", "summarize")
    /\ LET url == Item(h_cmd.v, "url")
       IN  IF url.exc # "none" THEN Finish(WebApology(url.exc)) /\ UNCHANGED h_fail
           ELSE IF url.v.ty # "str" THEN Finish(WebApology("AttributeError")) /\ UNCHANGED h_fail
           ELSE \E net \in Outcomes, llm \in Outcomes :
                  IF llm = "error" THEN WebModelFails
                  ELSE /\ Finish(<<"U+1F4DA **Article Analysis**\n\n">> \o SummaryText)
                       /\ h_fail' = IF net = "error" THEN "network" ELSE h_fail
    /\ UNCHANGED preferences
    /\ WebFrame

\* _research_topic(web_action['topic']): three searches, each with its own try, then the
\* model is called outside any try of the operation
WebResearch ==
    /\ Dispatching("web") /\ ItemIs(h_cmd.v, "action", "research")
    /\ LET topic == Item(h_cmd.v, "topic")
       IN  IF topic.exc # "none" THEN Finish(WebApology(topic.exc)) /\ UNCHANGED h_fail
           ELSE \E net \in Outcomes, llm \in Outcomes :
                  IF llm = "error" THEN WebModelFails
                  ELSE /\ Finish(<<"U+1F52C **Research Report: ", PyText(topic.v), "**\n\n">> \o SummaryText)
                       /\ h_fail' = IF net = "error" THEN "network" ELSE h_fail
    /\ UNCHANGED preferences
    /\ WebFrame

\* _monitor_website(web_action): the preference is stored, then the text is built;
\* ', '.join(keywords) raises TypeError on a number
WebMonitor ==
    /\ Dispatching("web") /\ ItemIs(h_cmd.v, "action", "monitor")
    /\ \E store \in Outcomes :
         IF store = "error"
         THEN /\ Finish(WebApology("OperationalError"))
              /\ h_fail' = "store"
              /\ UNCHANGED preferences
         ELSE /\ preferences' = UpdatePreference(preferences,
                                                 "monitor_" \o PyText(GetOr(h_cmd.v, "url", PyNone)),
                                                 MonitorConfig(h_cmd.v))
              /\ UNCHANGED h_fail
              /\ IF GetOr(h_cmd.v, "keywords", PyEmptyList).ty = "num"
                    /\ Truthy(GetOr(h_cmd.v, "keywords", PyEmptyList))
                 THEN Finish(WebApology("TypeError"))
                 ELSE Finish(<<"U+1F514 **Website Monitor Configured**\n\n", "URL: ",
                               PyText(GetOr(h_cmd.v, "url", PyNone))>>)
    /\ WebFrame

WebActions == {"search", "fetch_page", "monitor", "summarize", "research"}

\* the else branch
WebOther ==
    /\ Dispatching("web") /\ Item(h_cmd.v, "action").exc = "none"
    /\ \A a \in WebActions : ~ItemIs(h_cmd.v, "action", a)
    /\ Finish(<<"I can help you browse the web, search for information, or monitor websites. What would you like to know?">>)
    /\ UNCHANGED <<h_fail, preferences, extVars>>
    /\ WebFrame

WebSteps ==
    \/ WebParse \/ WebBadCommand \/ WebSearch \/ WebFetchPage \/ WebSummarize \/ WebResearch
    \/ WebMonitor \/ WebOther

----------------------------------------------------------------------------
(* AutomationAgent *)

AutomationSentinel == TopDict([k \in {"action"} |-> PyStr("unknown")])

\* the except branch of _parse_automation_command
AutomationOnParseError(v) == AutomationSentinel

\* _parse_automation_command, given the text the model returned
ParseAutomationCommand(text) ==
    LET data == JsonLoads(text)
    IN  IF data.ty = "error" THEN AutomationOnParseError(data) ELSE data

AutomationApology(e) == <<"Automation error: ", e, ". Let me help you set this up correctly.">>

\* dict[key] = value on a dict kept as its items in insertion order
DictSet(items, key, value) ==
    IF \E i \in 1..Len(items) : items[i].key = key
    THEN [i \in 1..Len(items) |->
             IF items[i].key = key THEN [key |-> key, value |-> value] ELSE items[i]]
    ELSE Append(items, [key |-> key, value |-> value])

HasItem(items, key) == \E i \in 1..Len(items) : items[i].key = key
ItemOf(items, key) == items[CHOOSE i \in 1..Len(items) : items[i].key = key].value

\* _parse_trigger: [exc, trigger]
ParseTrigger(trigger_config) ==
    IF trigger_config.ty # "dict" THEN [exc |-> "AttributeError", trigger |-> [type |-> "none"]]
    ELSE LET trigger_type == GetOr(trigger_config, "type", PyStr("manual"))
         IN  [exc |-> "none",
              trigger |->
                CASE trigger_type = PyStr("time") ->
                       [type |-> "time",
                        schedule |-> GetOr(trigger_config, "schedule", PyStr("0 9 * * *")),
                        timezone |-> GetOr(trigger_config, "timezone", PyStr("local"))]
                  [] trigger_type = PyStr("event") ->
                       [type |-> "event",
                        event_name |-> GetOr(trigger_config, "event_name", PyNone),
                        source |-> GetOr(trigger_config, "source", PyNone)]
                  [] trigger_type = PyStr("iot") ->
                       [type |-> "iot",
                        device_id |-> GetOr(trigger_config, "device_id", PyNone),
                        condition |-> GetOr(trigger_config, "condition", PyNone)]
                  [] OTHER -> [type |-> "event", event_name |-> PyStr("manual")]]

\* _describe_trigger
DescribeTrigger(trigger) ==
    CASE trigger.type = "time" -> <<"Scheduled (", PyText(trigger.schedule), ")">>
      [] trigger.type = "event" -> <<"When ", PyText(trigger.event_name), " occurs">>
      [] trigger.type = "iot" ->
           <<"When device ", PyText(trigger.device_id), " ", PyText(trigger.condition)>>
      [] OTHER -> <<"Manual trigger">>

\* a last_run that is None, and one that holds an isoformat text
NoLastRun == [none |-> TRUE, iso |-> << >>]
LastRunAt(t) == [none |-> FALSE, iso |-> IsoFormat(t)]

\* len(value): [exc, n]
PyLen(v) ==
    CASE v.ty = "str" -> [exc |-> "none", n |-> Len(v.s)]
      [] v.ty = "list" -> [exc |-> "none", n |-> Len(v.d)]
      [] v.ty = "dict" -> [exc |-> "none", n |-> Cardinality(DOMAIN v.d)]
      [] OTHER -> [exc |-> "TypeError", n |-> 0]

\* value[:30]: [exc, v], for the conditions the model puts into a request
Slice30(v) ==
    CASE v.ty = "str" ->
           [exc |-> "none",
            v |-> IF v.s = "the temperature in the living room rises"
                  THEN PyStr("the temperature in the living ") ELSE v]
      [] v.ty = "list" -> [exc |-> "none", v |-> v]
      [] OTHER -> [exc |-> "TypeError", v |-> PyNone]

\* the workflow _create_workflow builds
NewWorkflow(config, id, trigger, t) ==
    [id |-> id,
     name |-> GetOr(config, "workflow_name", PyStr("Unnamed Workflow")),
     description |-> GetOr(config, "description", PyStr("")),
     trigger |-> trigger,
     conditions |-> GetOr(config, "conditions", PyEmptyList),
     actions |-> GetOr(config, "actions", PyEmptyList),
     created_at |-> IsoFormat(t),
     enabled |-> TRUE,
     last_run |-> NoLastRun,
     run_count |-> 0]

\* the workflow _create_automation_rule builds
NewAutomationWorkflow(config, id, t) ==
    [id |-> id,
     name |-> <<"Automation: ", PyText(Slice30(GetOr(config, "if_condition", PyNone)).v), "...">>,
     trigger |-> [type |-> "condition", condition |-> GetOr(config, "if_condition", PyNone)],
     actions |-> PyList(<<GetOr(config, "then_action", PyNone)>>),
     created_at |-> IsoFormat(t),
     enabled |-> TRUE]

\* the device _control_iot_device registers for an id it does not know
NewDevice(command, device_id, t) ==
    [id |-> device_id,
     type |-> GetOr(command, "device_type", PyStr("smart_device")),
     state |-> PyStr("unknown"),
     last_seen |-> t,
     capabilities |-> << >>]

\* _execute_device_action
ExecuteDeviceActionStateOnly(device, action, t) == [device EXCEPT !.state = action]
ExecuteDeviceAction(device, action, t) == [device EXCEPT !.state = action, !.last_seen = t]

MaxWorkflows == 2

TxtCreateWorkflow ==
    Object(<< <<"action", <<TStr("create_workflow")>> >>, <<"workflow_name", <<TStr("Morning")>> >>,
              <<"trigger", Object(<< <<"type", <<TStr("time")>> >> >>)>>,
              <<"actions", <<LBrack, TStr("lights"), Comma, TStr("music"), RBrack>> >> >>)
TxtCreateWorkflowBare == Object(<< <<"action", <<TStr("create_workflow")>> >> >>)
TxtCreateWorkflowBadTrigger ==
    Object(<< <<"action", <<TStr("create_workflow")>> >>, <<"trigger", <<TStr("daily")>> >> >>)
TxtCreateWorkflowBadActions ==
    Object(<< <<"action", <<TStr("create_workflow")>> >>, <<"actions", <<TNull>> >> >>)
TxtCreateAutomation ==
    Object(<< <<"action", <<TStr("create_automation")>> >>,
              <<"if_condition", <<TStr("the temperature in the living room rises")>> >>,
              <<"then_action", <<TStr("open the window")>> >> >>)
TxtCreateAutomationBare == Object(<< <<"action", <<TStr("create_automation")>> >> >>)
TxtControlDevice ==
    Object(<< <<"action", <<TStr("control_device")>> >>, <<"device", <<TStr("lamp")>> >>,
              <<"device_action", <<TStr("on")>> >> >>)
TxtControlDeviceBare == Object(<< <<"action", <<TStr("control_device")>> >> >>)
TxtControlDeviceList ==
    Object(<< <<"action", <<TStr("control_device")>> >>, <<"device", <<LBrack, RBrack>> >> >>)

\* what the model may answer to the automation parse prompt; requests that would grow
\* the registry past its bound are left out
AutomationTexts ==
    NonJsonTexts
    \cup {TxtCreateWorkflowBadTrigger, TxtCreateAutomationBare, TxtControlDevice,
          TxtControlDeviceBare, TxtControlDeviceList,
          Object(<< <<"action", <<TStr("list_workflows")>> >> >>),
          Object(<< <<"action", <<TStr("monitor")>> >> >>),
          Object(<< <<"action", <<TStr("run")>> >> >>),
          TxtEmptyObject, TxtEmptyList}
    \cup (IF Len(workflows) < MaxWorkflows
          THEN {TxtCreateWorkflow, TxtCreateWorkflowBare, TxtCreateWorkflowBadActions,
                TxtCreateAutomation}
          ELSE {})

\* _parse_automation_command: the model answers, the answer is parsed
AutomationParse ==
    /\ h_pc = "parse" /\ h_agent = "automation"
    /\ \E text \in AutomationTexts :
         /\ h_text' = text
         /\ h_cmd' = PlainCommand(ParseAutomationCommand(text))
    /\ h_pc' = "dispatch"
    /\ UNCHANGED <<now, timeVars, storeVars, schedVars, h_agent, h_via, h_input, h_params,
                   h_fail, h_conflicts, h_out, oVars, autoVars, preferences, extVars>>

AutomationFrame ==
    UNCHANGED <<now, timeVars, storeVars, schedVars, hReq, h_conflicts, oVars, preferences, extVars>>

\* command['action'] raises inside the try
AutomationBadCommand ==
    /\ Dispatching("automation") /\ Item(h_cmd.v, "action").exc # "none"
    /\ Finish(AutomationApology(Item(h_cmd.v, "action").exc))
    /\ UNCHANGED <<h_fail, autoVars>>
    /\ AutomationFrame

\* _create_workflow(config) on the registry it finds: [id, stored, workflows, triggers, exc]
CreateWorkflow(config, wfs, trs, t) ==
    LET workflow_id == "workflow_" \o ToString(Len(wfs))
        parsed == ParseTrigger(GetOr(config, "trigger", PyEmptyDict))
        workflow == NewWorkflow(config, workflow_id, parsed.trigger, t)
    IN  IF parsed.exc # "none"
        THEN [id |-> workflow_id, stored |-> FALSE, workflows |-> wfs, triggers |-> trs,
              exc |-> parsed.exc]
        ELSE [id |-> workflow_id, stored |-> TRUE,
              workflows |-> DictSet(wfs, workflow_id, workflow),
              triggers |-> DictSet(trs, parsed.trigger.type \o "_" \o workflow_id,
                                   [workflow_id |-> workflow_id, config |-> parsed.trigger,
                                    registered_at |-> t]),
              exc |-> PyLen(workflow.actions).exc]

\* the id _create_automation_rule gives: taken from the registry as it is after the model
\* has answered (before: the registry when the model was called, after: when it answered)
RuleIdBeforeCall(before, after) == "auto_" \o ToString(before)
RuleId(before, after) == "auto_" \o ToString(after)

\* _create_automation_rule(config) after the model has answered: [id, stored, workflows, exc]
CreateAutomationRule(config, wfs, id, t) ==
    IF Slice30(GetOr(config, "if_condition", PyNone)).exc # "none"
    THEN [id |-> id, stored |-> FALSE, workflows |-> wfs, exc |-> "TypeError"]
    ELSE [id |-> id, stored |-> TRUE,
          workflows |-> DictSet(wfs, id, NewAutomationWorkflow(config, id, t)),
          exc |-> "none"]

\* _create_workflow: the workflow is stored and its trigger registered before the text,
\* which takes len(workflow['actions']), is built
AutomationCreateWorkflow ==
    /\ Dispatching("automation") /\ ItemIs(h_cmd.v, "action", "create_workflow")
    /\ LET made == CreateWorkflow(h_cmd.v, workflows, triggers, now)
           workflow == ItemOf(made.workflows, made.id)
       IN  /\ workflows' = made.workflows
           /\ triggers' = made.triggers
           /\ UNCHANGED iot_devices
           /\ IF made.exc # "none"
              THEN Finish(AutomationApology(made.exc))
              ELSE Finish(<<"U+2705 **Workflow Created: ", PyText(workflow.name), "**\n\n",
                            "Trigger: ">> \o DescribeTrigger(workflow.trigger)
                          \o <<"\nActions: ", ToString(PyLen(workflow.actions).n),
                               " steps configured">>)
    /\ UNCHANGED h_fail
    /\ AutomationFrame

\* _create_automation_rule: the model is called, then the workflow is built and stored
AutomationCreateRule ==
    /\ Dispatching("automation") /\ ItemIs(h_cmd.v, "action", "create_automation")
    /\ \E llm \in Outcomes :
         IF llm = "error"
         THEN /\ Finish(AutomationApology("ModelError"))
              /\ h_fail' = "model"
              /\ UNCHANGED autoVars
         ELSE /\ UNCHANGED h_fail
              /\ LET made == CreateAutomationRule(h_cmd.v, workflows,
                                                  RuleId(Len(workflows), Len(workflows)), now)
                 IN  /\ workflows' = made.workflows
                     /\ UNCHANGED <<triggers, iot_devices>>
                     /\ IF made.exc # "none" THEN Finish(AutomationApology(made.exc))
                        ELSE Finish(<<"U+1F916 **Automation Rule Created**\n\n">>
                                    \o SummaryText)
    /\ AutomationFrame

\* _control_iot_device; a device id that cannot be hashed raises TypeError
AutomationControlDevice ==
    /\ Dispatching("automation") /\ ItemIs(h_cmd.v, "action", "control_device")
    /\ LET device_id == GetOr(h_cmd.v, "device", PyNone)
           action == GetOr(h_cmd.v, "device_action", PyNone)
           device == IF HasItem(iot_devices, device_id) THEN ItemOf(iot_devices, device_id)
                     ELSE NewDevice(h_cmd.v, device_id, now)
       IN  IF device_id.ty \in {"dict", "list"}
           THEN Finish(AutomationApology("TypeError")) /\ UNCHANGED iot_devices
           ELSE /\ iot_devices' = DictSet(iot_devices, device_id,
                                          ExecuteDeviceAction(device, action, now))
                /\ Finish(<<"U+1F3E0 **IoT Device Control**\n\n", "Device: ", PyText(device_id),
                            "\nAction: ", PyText(action), "\nStatus: ", "U+2705 ", PyText(action),
                            " executed successfully">>)
    /\ UNCHANGED <<h_fail, workflows, triggers>>
    /\ AutomationFrame

\* workflow['last_run'] and workflow['run_count'] of a workflow that has no such key
LacksRunFields(items) ==
    \E i \in 1..Len(items) : {"last_run", "run_count"} \ DOMAIN items[i].value # {}

\* the lines _list_workflows writes, one workflow after the other
RECURSIVE WorkflowLines(_)
WorkflowLines(items) ==
    LET WorkflowLine(workflow) ==
            <<"**", PyText(workflow.name), "** ",
              IF workflow.enabled THEN "U+2705 Active" ELSE "U+23F8 Paused", "\nTrigger: ">>
            \o DescribeTrigger(workflow.trigger)
            \o <<"\nLast Run: ", IF workflow.last_run.none THEN "Never" ELSE "at",
                 "\nRun Count: ", ToString(workflow.run_count), "\n---\n">>
    IN  IF items = << >> THEN << >>
        ELSE WorkflowLine(Head(items).value) \o WorkflowLines(Tail(items))

\* _list_workflows
AutomationListWorkflows ==
    /\ Dispatching("automation") /\ ItemIs(h_cmd.v, "action", "list_workflows")
    /\ IF workflows = << >> THEN Finish(<<"No workflows configured yet. ">>)
       ELSE IF LacksRunFields(workflows) THEN Finish(AutomationApology("KeyError"))
       ELSE Finish(<<"U+1F504 **Active Workflows**\n\n">> \o WorkflowLines(workflows))
    /\ UNCHANGED <<h_fail, autoVars>>
    /\ AutomationFrame

RECURSIVE TotalRuns(_)
TotalRuns(items) ==
    IF items = << >> THEN 0 ELSE Head(items).value.run_count + TotalRuns(Tail(items))

\* _monitor_status
AutomationMonitor ==
    /\ Dispatching("automation") /\ ItemIs(h_cmd.v, "action", "monitor")
    /\ IF LacksRunFields(workflows) THEN Finish(AutomationApology("KeyError"))
       ELSE Finish(<<"U+1F4CA **Automation System Status**\n\n", "Active: ",
                     ToString(Len(SelectSeq(workflows, LAMBDA w : w.value.enabled))),
                     "Total Executions: ", ToString(TotalRuns(workflows)),
                     "Connected: ", ToString(Len(iot_devices))>>)
    /\ UNCHANGED <<h_fail, autoVars>>
    /\ AutomationFrame

AutomationActions ==
    {"create_workflow", "list_workflows", "control_device", "create_automation", "monitor"}

\* the else branch: _suggest_automation calls the model
AutomationSuggest ==
    /\ Dispatching("automation") /\ Item(h_cmd.v, "action").exc = "none"
    /\ \A a \in AutomationActions : ~ItemIs(h_cmd.v, "action", a)
    /\ \E llm \in Outcomes :
         IF llm = "error" THEN Finish(AutomationApology("ModelError")) /\ h_fail' = "model"
         ELSE /\ Finish(<<"U+1F4A1 **Automation Suggestions**\n\n">> \o SummaryText)
              /\ UNCHANGED h_fail
    /\ UNCHANGED autoVars
    /\ AutomationFrame

AutomationSteps ==
    \/ AutomationParse \/ AutomationBadCommand \/ AutomationCreateWorkflow
    \/ AutomationCreateRule \/ AutomationControlDevice \/ AutomationListWorkflows
    \/ AutomationMonitor \/ AutomationSuggest

----------------------------------------------------------------------------
(* AgentOrchestrator *)

\* _initialize_agents: the names of the registry
Agents == {"scheduler", "file", "system", "web"}

\* the handlers share no state: a session works with one of the handlers that keep
\* state (scheduler, web, automation) and with the stateless ones
InSession(agent) ==
    /\ agent = "scheduler" => (workflows = << >> /\ iot_devices = << >> /\ preferences = << >>)
    /\ agent = "web" =>
          (workflows = << >> /\ iot_devices = << >> /\ reminders = << >> /\ recurring_tasks = << >>)
    /\ agent = "automation" =>
          (reminders = << >> /\ recurring_tasks = << >> /\ preferences = << >>)

IntentSentinel ==
    TopDict([k \in {"primary_agent", "parameters"} |->
                IF k = "primary_agent" THEN PyNone ELSE PyEmptyDict])

\* the except branch of _analyze_intent
IntentOnParseError(v) == IntentSentinel

\* _analyze_intent, given the text the model returned
AnalyzeIntent(text) ==
    LET data == JsonLoads(text)
    IN  IF data.ty = "error" THEN IntentOnParseError(data) ELSE data

IntentText(agent) == Object(<< <<"primary_agent", agent>>, <<"parameters", <<LBrace, RBrace>> >> >>)
TxtIntentNull == Object(<< <<"primary_agent", <<TNull>> >> >>)
TxtIntentNoParameters == Object(<< <<"primary_agent", <<TStr("scheduler")>> >> >>)
TxtIntentWithParameters ==
    Object(<< <<"primary_agent", <<TStr("scheduler")>> >>,
              <<"parameters", Object(<< <<"title", <<TStr("call Bob")>> >> >>)>> >>)

\* what the model may answer to the classification prompt
IntentTexts ==
    NonJsonTexts
    \cup {IntentText(<<TStr(a)>>) : a \in {x \in Agents : InSession(x)} \cup {"automation", ""}}
    \cup {IntentText(<<TNull>>), IntentText(<<TNum(7)>>), IntentText(<<LBrack, TStr("web"), RBrack>>),
          TxtIntentNull, TxtIntentNoParameters, TxtIntentWithParameters,
          TxtEmptyObject, TxtEmptyList, TxtNull}

\* free text of the model, one character a piece
ChatTexts == {<<"H", "i", ".">>, <<"H", "i">>, <<"O", "k", ".", " ">>, << >>}

\* a suggestion of the model: whitespace, words, whitespace
SuggestionSamples ==
    {[lead |-> << >>, core |-> << >>, trail |-> << >>],
     [lead |-> <<" ">>, core |-> << >>, trail |-> <<"\n">>],
     [lead |-> << >>, core |-> <<"R", "e", "s", "t", ".">>, trail |-> << >>],
     [lead |-> <<"\n", " ">>, core |-> <<"G", "o", " ", "o", "n">>, trail |-> <<" ", "\n">>]}
SuggestionRaw(x) == x.lead \o x.core \o x.trail

\* str.strip()
Strip(text) ==
    LET IsSpace(c) == c \in {" ", "\n", "\t", "\r"}
        RECURSIVE LStrip(_)
        LStrip(x) == IF x # << >> /\ IsSpace(Head(x)) THEN LStrip(Tail(x)) ELSE x
        RECURSIVE RStrip(_)
        RStrip(x) ==
            IF x # << >> /\ IsSpace(x[Len(x)]) THEN RStrip(SubSeq(x, 1, Len(x) - 1))
            ELSE x
    IN  RStrip(LStrip(text))

\* response.endswith(".")
EndsWithPeriod(text) == text # << >> /\ text[Len(text)] = "."

SignatureNoPeriod(response) == response \o <<" Always one call away.">>

\* lines 51-53 of process_input
Signature(response) ==
    (IF ~EndsWithPeriod(response) THEN response \o <<".">> ELSE response)
    \o <<" Always one call away.">>

AppendSuggestionAlways(result, suggestions) ==
    result \o <<"\n\nU+1F4A1 By the way, ">> \o suggestions

\* lines 42-43 of process_input
AppendSuggestion(result, suggestions) ==
    IF suggestions # << >> THEN result \o <<"\n\nU+1F4A1 By the way, ">> \o suggestions
    ELSE result

\* get_context builds its query by pasting the words of user_input between quotes:
\* a word with a quote in it, or no word at all, makes the query raise
QueryBreaks(user_input) == user_input \in {"what's on today", ""}

GenCall(kind, prompt, ok, out) == [kind |-> kind, prompt |-> prompt, ok |-> ok, out |-> out]

OrchestratorFrame == UNCHANGED <<now, timeVars, storeVars, schedVars, autoVars, preferences, extVars>>

OrchestratorRaises(e, why) ==
    /\ o_pc' = "raised"
    /\ o_out' = [exc |-> e, text |-> << >>]
    /\ o_fail' = why

\* process_input is called
ProcessInput ==
    /\ o_pc = "idle" /\ h_pc = "idle"
    /\ o_pc' = "classify"
    /\ \E input \in UserInputs : o_input' = input
    /\ UNCHANGED <<o_intent, o_result, o_raw, o_lookups, o_execs, o_gens, o_fail, o_out, hVars>>
    /\ OrchestratorFrame

\* _analyze_intent: the model is called and its answer parsed
Classify ==
    /\ o_pc = "classify"
    /\ \/ /\ OrchestratorRaises("ModelError", "model")
          /\ o_gens' = Append(o_gens, GenCall("classify", o_input, FALSE, << >>))
          /\ UNCHANGED o_intent
       \/ \E text \in IntentTexts :
            /\ o_gens' = Append(o_gens, GenCall("classify", o_input, TRUE, text))
            /\ o_intent' = AnalyzeIntent(text)
            /\ o_pc' = "route"
            /\ UNCHANGED <<o_fail, o_out>>
    /\ UNCHANGED <<o_input, o_result, o_raw, o_lookups, o_execs, hVars>>
    /\ OrchestratorFrame

\* lines 34-37 of process_input: the intent is read, the registry looked up and the
\* handler's execute called
Route ==
    /\ o_pc = "route"
    /\ LET primary == Item(o_intent, "primary_agent")
           parameters == Item(o_intent, "parameters")
       IN  IF primary.exc # "none"
           THEN /\ OrchestratorRaises(primary.exc, "intent")
                /\ UNCHANGED <<o_lookups, o_execs, hVars>>
           ELSE IF ~Truthy(primary.v)
           THEN /\ o_pc' = "fallback"
                /\ UNCHANGED <<o_lookups, o_execs, o_fail, o_out, hVars>>
           ELSE /\ o_lookups' = o_lookups + 1
                /\ IF primary.v.ty \in {"dict", "list"}
                   THEN /\ OrchestratorRaises("TypeError", "intent")
                        /\ UNCHANGED <<o_execs, hVars>>
                   ELSE IF ~(primary.v.ty = "str" /\ primary.v.s \in Agents)
                   THEN /\ o_pc' = "fallback"
                        /\ UNCHANGED <<o_execs, o_fail, o_out, hVars>>
                   ELSE IF parameters.exc # "none"
                   THEN /\ OrchestratorRaises(parameters.exc, "intent")
                        /\ UNCHANGED <<o_execs, hVars>>
                   ELSE /\ BeginExecute(primary.v.s, "orchestrator", o_input, parameters.v)
                        /\ o_execs' = Append(o_execs, [agent |-> primary.v.s, input |-> o_input,
                                                       params |-> parameters.v])
                        /\ o_pc' = "exec"
                        /\ UNCHANGED <<o_fail, o_out>>
    /\ UNCHANGED <<o_input, o_intent, o_result, o_raw, o_gens>>
    /\ OrchestratorFrame

\* execute returns to process_input, or raises through it
ExecuteNotAwaited ==
    /\ o_pc = "exec" /\ h_via = "orchestrator" /\ h_pc # "idle"
    /\ o_result' = h_out.text
    /\ o_pc' = "suggest"
    /\ UNCHANGED <<o_fail, o_out, hVars>>
    /\ UNCHANGED <<o_input, o_intent, o_raw, o_lookups, o_execs, o_gens>>
    /\ OrchestratorFrame
ExecuteReturnsToOrchestrator ==
    /\ o_pc = "exec" /\ h_via = "orchestrator" /\ h_pc \in {"done", "raised"}
    /\ IF h_pc = "done"
       THEN /\ o_result' = h_out.text
            /\ o_pc' = "suggest"
            /\ UNCHANGED <<o_fail, o_out>>
       ELSE /\ OrchestratorRaises(h_out.exc, "handler")
            /\ UNCHANGED o_result
    /\ HandlerIdle
    /\ UNCHANGED <<o_input, o_intent, o_raw, o_lookups, o_execs, o_gens>>
    /\ OrchestratorFrame

\* _generate_suggestions and lines 42-45 of process_input
Suggest ==
    /\ o_pc = "suggest"
    /\ \E context \in Outcomes, llm \in Outcomes, suggestion \in SuggestionSamples :
         IF context = "error" \/ QueryBreaks(o_input)
         THEN /\ OrchestratorRaises("OperationalError",
                                    IF QueryBreaks(o_input) THEN "query" ELSE "store")
              /\ UNCHANGED <<o_raw, o_gens>>
         ELSE IF llm = "error"
         THEN /\ OrchestratorRaises("ModelError", "model")
              /\ o_gens' = Append(o_gens, GenCall("suggest", o_input, FALSE, << >>))
              /\ UNCHANGED o_raw
         ELSE /\ o_raw' = SuggestionRaw(suggestion)
              /\ o_gens' = Append(o_gens, GenCall("suggest", o_input, TRUE, SuggestionRaw(suggestion)))
              /\ o_out' = [exc |-> "none",
                           text |-> AppendSuggestion(o_result, Strip(SuggestionRaw(suggestion)))]
              /\ o_pc' = "done"
              /\ UNCHANGED o_fail
    /\ UNCHANGED <<o_input, o_intent, o_result, o_lookups, o_execs, hVars>>
    /\ OrchestratorFrame

\* lines 47-55 of process_input: general conversation
Fallback ==
    /\ o_pc = "fallback"
    /\ \/ /\ OrchestratorRaises("ModelError", "model")
          /\ o_gens' = Append(o_gens, GenCall("open", o_input, FALSE, << >>))
          /\ UNCHANGED o_raw
       \/ \E response \in ChatTexts :
            /\ o_raw' = response
            /\ o_gens' = Append(o_gens, GenCall("open", o_input, TRUE, response))
            /\ o_out' = [exc |-> "none", text |-> Signature(response)]
            /\ o_pc' = "done"
            /\ UNCHANGED o_fail
    /\ UNCHANGED <<o_input, o_intent, o_result, o_lookups, o_execs, hVars>>
    /\ OrchestratorFrame

\* the caller takes what process_input returned or raised
ProcessInputReturns ==
    /\ o_pc \in {"done", "raised"}
    /\ o_pc' = "idle"
    /\ o_input' = ""
    /\ o_intent' = JsonError
    /\ o_result' = << >>
    /\ o_raw' = << >>
    /\ o_lookups' = 0
    /\ o_execs' = << >>
    /\ o_gens' = << >>
    /\ o_fail' = "none"
    /\ o_out' = NoOutcome
    /\ UNCHANGED hVars
    /\ OrchestratorFrame

OrchestratorSteps ==
    \/ ProcessInput \/ Classify \/ Route \/ ExecuteReturnsToOrchestrator \/ Suggest
    \/ Fallback \/ ProcessInputReturns

\* execute called on a handler directly, parameters left at None
HandlerExecute ==
    /\ o_pc = "idle"
    /\ \E agent \in Agents \cup {"automation"}, input \in DirectInputs :
         /\ InSession(agent)
         /\ BeginExecute(agent, "direct", input, PyNone)
    /\ UNCHANGED <<now, timeVars, storeVars, schedVars, oVars, autoVars, preferences, extVars>>

InitIdle ==
    /\ now = DT(0, 9, 20, 30, 7)
    /\ InitTimeIdle
    /\ InitStoreIdle
    /\ InitSchedulerIdle
    /\ InitHandlerIdle
    /\ InitOrchestratorIdle
    /\ InitAutomationIdle
    /\ InitSmartHomeIdle
    /\ InitConversationsIdle
    /\ preferences = << >>

\* the five handlers, called directly
InitHandlers == InitIdle
NextHandlers ==
    \/ HandlerExecute \/ ModelFailsInParse \/ SchedulerSteps \/ FileSteps \/ SystemSteps
    \/ WebSteps \/ AutomationSteps \/ ExecuteReturns
SpecHandlers == InitHandlers /\ [][NextHandlers]_vars

\* requests through the orchestrator
Init == InitIdle
Next ==
    \/ OrchestratorSteps \/ ModelFailsInParse \/ SchedulerSteps \/ FileSteps \/ SystemSteps
    \/ WebSteps
Spec == Init /\ [][Next]_vars

----------------------------------------------------------------------------
(* AutomationAgent: the engine loop and concurrent requests *)

MaxRuns == 2

\* for action in workflow['actions']: a value that is no str, list or dict cannot be iterated
Iterable(v) == v.ty \in {"str", "list", "dict"}

CheckAndRunWorkflowPerAction(workflow, t) ==
    [workflow |-> [workflow EXCEPT !.last_run = LastRunAt(t),
                                   !.run_count = @ + PyLen(workflow.actions).n],
     exc |-> "none"]

\* _check_and_run_workflow(workflow) at time t: [workflow, exc]
CheckAndRunWorkflow(workflow, t) ==
    LET stamped == [f \in DOMAIN workflow \cup {"last_run"} |->
                       IF f = "last_run" THEN LastRunAt(t) ELSE workflow[f]]
    IN  IF "run_count" \notin DOMAIN workflow
        THEN [workflow |-> stamped, exc |-> "KeyError"]
        ELSE [workflow |-> [stamped EXCEPT !.run_count = @ + 1],
              exc |-> IF Iterable(workflow.actions) THEN "none" ELSE "TypeError"]

\* the test the engine's first loop makes on a registered trigger before it runs the workflow
EngineRunsAnyTrigger(trigger_data, wfs) ==
    /\ HasItem(wfs, trigger_data.workflow_id)
    /\ ItemOf(wfs, trigger_data.workflow_id).enabled
EngineRunsTrigger(trigger_data, wfs) ==
    /\ trigger_data.config.type = "time"
    /\ HasItem(wfs, trigger_data.workflow_id)
    /\ ItemOf(wfs, trigger_data.workflow_id).enabled

\* the loop over self.triggers.items() of one iteration of _automation_engine, from
\* trigger i on; acc is [workflows, runs, exc]. An exception ends the iteration.
RECURSIVE RunTimeTriggers(_, _, _, _)
RunTimeTriggers(trs, i, acc, t) ==
    IF i > Len(trs) THEN acc
    ELSE LET trigger_data == trs[i].value
             workflow_id == trigger_data.workflow_id
         IN  IF EngineRunsTrigger(trigger_data, acc.workflows)
             THEN LET run == CheckAndRunWorkflow(ItemOf(acc.workflows, workflow_id), t)
                      after == [workflows |-> DictSet(acc.workflows, workflow_id, run.workflow),
                                runs |-> Append(acc.runs, workflow_id),
                                exc |-> run.exc]
                  IN  IF run.exc # "none" THEN after
                      ELSE RunTimeTriggers(trs, i + 1, after, t)
             ELSE RunTimeTriggers(trs, i + 1, acc, t)

\* one iteration of _automation_engine, up to its sleep: no call it awaits suspends, so
\* nothing runs in between. The second loop (_evaluate_conditions) changes nothing.
AutomationEngine ==
    /\ \A i \in 1..Len(workflows) :
          "run_count" \in DOMAIN workflows[i].value => workflows[i].value.run_count < MaxRuns
    /\ LET r == RunTimeTriggers(triggers, 1,
                                [workflows |-> workflows, runs |-> << >>, exc |-> "none"], now)
       IN  /\ workflows' = r.workflows
           /\ e_runs' = r.runs
           /\ e_exc' = r.exc
    /\ UNCHANGED <<now, timeVars, storeVars, schedVars, hVars, oVars, triggers, iot_devices,
                   a_req, a_log, preferences, homeVars, convVars, ev_req>>

\* the enabled flag of a workflow cleared from outside the agent
DisableWorkflow ==
    /\ \E i \in 1..Len(workflows) :
          /\ workflows[i].value.enabled
          /\ workflows' = [workflows EXCEPT ![i].value.enabled = FALSE]
    /\ UNCHANGED <<now, timeVars, storeVars, schedVars, hVars, oVars, triggers, iot_devices,
                   engVars, preferences, homeVars, convVars, ev_req>>

TxtCreateWorkflowTimeNoActions ==
    Object(<< <<"action", <<TStr("create_workflow")>> >>,
              <<"trigger", Object(<< <<"type", <<TStr("time")>> >> >>)>>,
              <<"actions", <<TNull>> >> >>)
TxtCreateWorkflowTimeOne ==
    Object(<< <<"action", <<TStr("create_workflow")>> >>,
              <<"trigger", Object(<< <<"type", <<TStr("time")>> >> >>)>>,
              <<"actions", <<LBrack, TStr("lights"), RBrack>> >> >>)
TxtCreateWorkflowTimeBare ==
    Object(<< <<"action", <<TStr("create_workflow")>> >>,
              <<"trigger", Object(<< <<"type", <<TStr("time")>> >> >>)>> >>)
TxtCreateWorkflowIot ==
    Object(<< <<"action", <<TStr("create_workflow")>> >>,
              <<"trigger", Object(<< <<"type", <<TStr("iot")>> >>,
                                     <<"device_id", <<TStr("lamp")>> >> >>)>> >>)

\* the requests that have called the model for a rule and not yet stored it
AwaitingRule == {r \in 1..MaxRequests : a_req[r].pc = "rule"}

\* what the model may answer to the parse prompt of a concurrent request
ReqWorkflowTexts ==
    {TxtCreateWorkflowBadTrigger}
    \cup (IF Len(workflows) + Cardinality(AwaitingRule) < MaxWorkflows
          THEN {TxtCreateWorkflow, TxtCreateWorkflowTimeOne, TxtCreateWorkflowTimeBare,
                TxtCreateWorkflowTimeNoActions, TxtCreateWorkflowBare, TxtCreateWorkflowIot}
          ELSE {})
ReqRuleTexts ==
    {TxtCreateAutomationBare}
    \cup (IF Len(workflows) + Cardinality(AwaitingRule) < MaxWorkflows
          THEN {TxtCreateAutomation} ELSE {})

ReqFrame ==
    UNCHANGED <<now, timeVars, storeVars, schedVars, hVars, oVars, iot_devices, e_runs, e_exc,
                preferences, homeVars, convVars, ev_req>>

Logged(log, made, wfs) ==
    Append(log, [id |-> made.id, existed |-> HasItem(wfs, made.id),
                 confirmed |-> made.exc = "none"])

\* execute is called and awaits the model's answer to the parse prompt
ReqExecute(r) ==
    /\ a_req[r].pc = "idle"
    /\ a_req' = [a_req EXCEPT ![r].pc = "parse"]
    /\ UNCHANGED <<workflows, triggers, a_log>>
    /\ ReqFrame

\* the model answers with a create_workflow command: from json.loads to the return of
\* _create_workflow nothing is awaited that suspends
ReqCreateWorkflow(r) ==
    /\ a_req[r].pc = "parse"
    /\ \E text \in ReqWorkflowTexts :
         LET made == CreateWorkflow(ParseAutomationCommand(text), workflows, triggers, now)
         IN  /\ workflows' = made.workflows
             /\ triggers' = made.triggers
             /\ a_log' = IF made.stored THEN Logged(a_log, made, workflows) ELSE a_log
    /\ a_req' = [a_req EXCEPT ![r].pc = "done"]
    /\ ReqFrame

\* the model answers with a create_automation command: _create_automation_rule calls
\* the model again and awaits its answer
ReqRuleCall(r) ==
    /\ a_req[r].pc = "parse"
    /\ \E text \in ReqRuleTexts :
         a_req' = [a_req EXCEPT ![r] = [pc |-> "rule", cmd |-> ParseAutomationCommand(text),
                                         seen |-> Len(workflows)]]
    /\ UNCHANGED <<workflows, triggers, a_log>>
    /\ ReqFrame

\* the model fails, or answers with something that creates nothing
ReqOther(r) ==
    /\ a_req[r].pc = "parse"
    /\ a_req' = [a_req EXCEPT ![r].pc = "done"]
    /\ UNCHANGED <<workflows, triggers, a_log>>
    /\ ReqFrame

\* the model answers the rule prompt (or fails): the id is taken and the workflow stored
ReqRuleStore(r) ==
    /\ a_req[r].pc = "rule"
    /\ \E llm \in Outcomes :
         IF llm = "error" THEN UNCHANGED <<workflows, a_log>>
         ELSE LET made == CreateAutomationRule(a_req[r].cmd, workflows,
                                               RuleId(a_req[r].seen, Len(workflows)), now)
              IN  /\ workflows' = made.workflows
                  /\ a_log' = IF made.stored THEN Logged(a_log, made, workflows) ELSE a_log
    /\ a_req' = [a_req EXCEPT ![r] = [NoRequest EXCEPT !.pc = "done"]]
    /\ UNCHANGED triggers
    /\ ReqFrame

ReqReturn(r) ==
    /\ a_req[r].pc = "done"
    /\ a_req' = [a_req EXCEPT ![r].pc = "idle"]
    /\ UNCHANGED <<workflows, triggers, a_log>>
    /\ ReqFrame

ReqStep(r) ==
    \/ ReqExecute(r) \/ ReqCreateWorkflow(r) \/ ReqRuleCall(r) \/ ReqOther(r)
    \/ ReqRuleStore(r) \/ ReqReturn(r)

\* the automation agent with its engine running, the clock moving and one request at a time
InitAuto == InitIdle
NextAuto == ReqStep(1) \/ AutomationEngine \/ DisableWorkflow \/ Tick
SpecAuto == InitAuto /\ [][NextAuto]_vars

\* requests to the automation agent arriving concurrently
InitRequests == InitIdle
NextRequests == \E r \in 1..MaxRequests : ReqStep(r)
SpecRequests == InitRequests /\ [][NextRequests]_vars

-----------------------------------------------------------------------------
(* SmartHomePlugin: reading a command *)

\* a command is the sequence of its characters; names and keywords are strings
UpperLetters ==
    <<"A", "B", "C", "D", "E", "F", "G", "H", "I", "J", "K", "L", "M", "N", "O", "P", "Q",
      "R", "S", "T", "U", "V", "W", "X", "Y", "Z">>
LowerLetters ==
    <<"a", "b", "c", "d", "e", "f", "g", "h", "i", "j", "k", "l", "m", "n", "o", "p", "q",
      "r", "s", "t", "u", "v", "w", "x", "y", "z">>

\* command.lower()
LowerAscii(s) ==
    [i \in 1..Len(s) |->
        IF \E k \in 1..Len(UpperLetters) : UpperLetters[k] = s[i]
        THEN LowerLetters[CHOOSE k \in 1..Len(UpperLetters) : UpperLetters[k] = s[i]]
        ELSE s[i]]

\* the string a sequence of characters spells
RECURSIVE Concat(_)
Concat(chars) == IF chars = << >> THEN "" ELSE Head(chars) \o Concat(Tail(chars))

\* keyword in s
InCommand(keyword, s) ==
    \E i \in 1..Len(s) : \E j \in i..Len(s) : Concat(SubSeq(s, i, j)) = keyword

\* str.split(): the words between runs of whitespace
RECURSIVE SplitWords(_, _, _)
SplitWords(s, word, acc) ==
    IF s = << >> THEN (IF word = << >> THEN acc ELSE Append(acc, word))
    ELSE IF Head(s) \in {" ", "\n", "\t", "\r"}
         THEN SplitWords(Tail(s), << >>, IF word = << >> THEN acc ELSE Append(acc, word))
         ELSE SplitWords(Tail(s), Append(word, Head(s)), acc)

\* ' '.join(words)
RECURSIVE JoinWords(_)
JoinWords(words) ==
    IF words = << >> THEN << >>
    ELSE IF Len(words) = 1 THEN words[1]
    ELSE words[1] \o <<" ">> \o JoinWords(Tail(words))

DeviceKeywords == {"light", "lights", "lamp", "switch", "thermostat", "door", "camera"}

\* _extract_device
ExtractDevice(command) ==
    LET words == SplitWords(LowerAscii(command), << >>, << >>)
        hits == {i \in 1..Len(words) : Concat(words[i]) \in DeviceKeywords}
    IN  IF hits = {} THEN "device"
        ELSE LET i == CHOOSE k \in hits : \A l \in hits : k <= l
                 first == IF i - 2 > 1 THEN i - 2 ELSE 1
                 location == JoinWords(SubSeq(words, first, i - 1))
             IN  Concat(Strip(location \o <<" ">> \o words[i]))

\* _extract_scene
ExtractScene(command) ==
    LET lower == LowerAscii(command)
    IN  IF InCommand("movie", lower) THEN "movie"
        ELSE IF InCommand("bedtime", lower) \/ InCommand("sleep", lower) THEN "bedtime"
        ELSE IF InCommand("morning", lower) THEN "morning"
        ELSE IF InCommand("party", lower) THEN "party"
        ELSE "default"

\* _extract_number: the first word of digits as a number, None (here -1) without one
ExtractNumber(command) ==
    LET words == SplitWords(command, << >>, << >>)
        hits == {i \in 1..Len(words) : \A k \in 1..Len(words[i]) : IsDigit(words[i][k])}
        RECURSIVE IntOf(_, _)
        IntOf(w, n) == IF w = << >> THEN n ELSE IntOf(Tail(w), 10 * n + DigitVal(Head(w)))
    IN  IF hits = {} THEN -1
        ELSE IntOf(words[CHOOSE k \in hits : \A l \in hits : k <= l], 0)

\* _parse_command
ParseHomeCommand(command) ==
    LET command_lower == LowerAscii(command)
        none == [type |-> "unknown", device |-> "", state |-> PyNone, scene |-> "", level |-> 0]
        control(state) ==
            [none EXCEPT !.type = "control", !.device = ExtractDevice(command),
                         !.state = PyStr(state)]
    IN  IF InCommand("turn on", command_lower) THEN control("on")
        ELSE IF InCommand("turn off", command_lower) THEN control("off")
        ELSE IF InCommand("dim", command_lower) \/ InCommand("brightness", command_lower)
        THEN [control("dim") EXCEPT !.level = IF ExtractNumber(command) \in {-1, 0} THEN 50
                                               ELSE ExtractNumber(command)]
        ELSE IF InCommand("scene", command_lower)
        THEN [none EXCEPT !.type = "scene", !.scene = ExtractScene(command)]
        ELSE IF InCommand("status", command_lower) THEN [none EXCEPT !.type = "status"]
        ELSE none

\* "turn on kitchen lights"
CmdKitchenLights ==
    <<"t", "u", "r", "n", " ", "o", "n", " ", "k", "i", "t", "c", "h", "e", "n", " ", "l",
      "i", "g", "h", "t", "s">>
\* "Turn on living room lights"
CmdLivingRoomLights ==
    <<"T", "u", "r", "n", " ", "o", "n", " ", "l", "i", "v", "i", "n", "g", " ", "r", "o",
      "o", "m", " ", "l", "i", "g", "h", "t", "s">>
\* "turn off living room lights"
CmdLivingRoomOff ==
    <<"t", "u", "r", "n", " ", "o", "f", "f", " ", "l", "i", "v", "i", "n", "g", " ", "r",
      "o", "o", "m", " ", "l", "i", "g", "h", "t", "s">>
\* "dim living room lights 30"
CmdLivingRoomDim ==
    <<"d", "i", "m", " ", "l", "i", "v", "i", "n", "g", " ", "r", "o", "o", "m", " ", "l",
      "i", "g", "h", "t", "s", " ", "3", "0">>
\* "lamp turn on"
CmdLamp ==
    <<"l", "a", "m", "p", " ", "t", "u", "r", "n", " ", "o", "n">>
\* "start the Movie scene"
CmdMovieScene ==
    <<"s", "t", "a", "r", "t", " ", "t", "h", "e", " ", "M", "o", "v", "i", "e", " ", "s",
      "c", "e", "n", "e">>
\* "relax scene"
CmdRelaxScene ==
    <<"r", "e", "l", "a", "x", " ", "s", "c", "e", "n", "e">>
\* "status"
CmdStatus ==
    <<"s", "t", "a", "t", "u", "s">>
\* "hello"
CmdHello ==
    <<"h", "e", "l", "l", "o">>

-----------------------------------------------------------------------------
(* SmartHomePlugin: devices and scenes *)

Integrations == <<"hue", "homeassistant", "smartthings", "alexa">>

\* what discover() of an integration returns: new dicts at every call
Discover(integration) ==
    IF integration = "hue"
    THEN <<[id |-> "hue_1", name |-> "living room lights", type |-> "light",
            state |-> PyStr("off")],
           [id |-> "hue_2", name |-> "bedroom lights", type |-> "light",
            state |-> PyStr("off")]>>
    ELSE << >>

\* control_device(id, state) of an integration
IntegrationControl(integration, id, state) == TRUE

\* str(state) inside an f-string
StateText(state) == IF state.ty = "num" THEN ToString(state.n) ELSE state.s

\* the loops of discover_devices: every discovered device replaces the registry's entry
\* of its name; [devices, discovered]
RECURSIVE DiscoverInto(_, _, _)
DiscoverInto(names, devs, discovered) ==
    IF names = << >> THEN [devices |-> devs, discovered |-> discovered]
    ELSE LET found == Discover(Head(names))
             RECURSIVE Register(_, _)
             Register(k, acc) ==
                 IF k > Len(found) THEN acc
                 ELSE Register(k + 1,
                               DictSet(acc, found[k].name,
                                       [id |-> found[k].id, name |-> found[k].name,
                                        type |-> found[k].type, state |-> found[k].state,
                                        integration |-> Head(names)]))
         IN  DiscoverInto(Tail(names), Register(1, devs),
                          discovered \o [k \in 1..Len(found) |-> found[k].name])

\* discover_devices: [devices, text], the text as its lines
DiscoverDevices(devs) ==
    LET d == DiscoverInto(Integrations, devs, << >>)
    IN  [devices |-> d.devices,
         text |-> IF d.discovered # << >>
                  THEN <<<<"U+1F50D Discovered ", ToString(Len(d.discovered)), " devices:">>>>
                       \o [k \in 1..Len(d.discovered) |-> <<"U+2022 ", d.discovered[k]>>]
                  ELSE <<<<"No smart home devices found. Make sure your integrations are configured.">>>>]

\* control_device: [devices, text, controlled]; controlled says that the integration of
\* the device accepted the command
ControlDevice(devs, device_name, state) ==
    LET known == IF HasItem(devs, device_name) THEN devs
                 ELSE DiscoverDevices(devs).devices
    IN  IF ~HasItem(known, device_name)
        THEN [devices |-> known, controlled |-> FALSE,
              text |-> <<"I couldn't find a device called '", device_name,
                         "'. Try saying 'discover devices' to find available devices.">>]
        ELSE LET device == ItemOf(known, device_name)
             IN  IF device.integration \notin {Integrations[k] : k \in 1..Len(Integrations)}
                 THEN [devices |-> known, controlled |-> FALSE,
                       text |-> <<"Integration not available for ", device_name>>]
                 ELSE IF IntegrationControl(device.integration, device.id, state)
                 THEN [devices |-> DictSet(known, device_name, [device EXCEPT !.state = state]),
                       controlled |-> TRUE,
                       text |-> <<"U+2705 ", device_name, " is now ", StateText(state)>>]
                 ELSE [devices |-> known, controlled |-> FALSE,
                       text |-> <<"U+274C Failed to control ", device_name,
                                  ". Please check the connection.">>]

\* self.scenes after activate_scene found the name missing: per scene, the pairs of its
\* 'lights' and then of its 'devices', in the order of the dict literals
DefaultScenes ==
    <<[key |-> "movie",
       value |-> <<[device |-> "living room lights", state |-> PyNum(20)],
                   [device |-> "kitchen lights", state |-> PyStr("off")],
                   [device |-> "tv", state |-> PyStr("on")],
                   [device |-> "sound system", state |-> PyStr("on")]>>],
      [key |-> "bedtime",
       value |-> <<[device |-> "bedroom lights", state |-> PyNum(10)],
                   [device |-> "all other lights", state |-> PyStr("off")],
                   [device |-> "thermostat", state |-> PyNum(68)]>>],
      [key |-> "morning",
       value |-> <<[device |-> "bedroom lights", state |-> PyNum(100)],
                   [device |-> "kitchen lights", state |-> PyNum(100)],
                   [device |-> "coffee maker", state |-> PyStr("on")]>>],
      [key |-> "party",
       value |-> <<[device |-> "all lights", state |-> PyStr("color_loop")],
                   [device |-> "sound system", state |-> PyStr("on")]>>]>>

\* the scenes of the plugin: {} until the first activate_scene, the defaults after it
ScenesOf(s) == IF s = "empty" THEN << >> ELSE DefaultScenes

\* the nested loops of activate_scene flattened: the pairs of self.scenes.get(name, {})
ScenePairsFirstOnly(s, scene_name) ==
    IF HasItem(ScenesOf(s), scene_name) THEN <<ItemOf(ScenesOf(s), scene_name)[1]>> ELSE << >>
ScenePairs(s, scene_name) ==
    IF HasItem(ScenesOf(s), scene_name) THEN ItemOf(ScenesOf(s), scene_name) ELSE << >>

\* the text activate_scene returns, as its lines
SceneText(scene_name, results) ==
    <<<<"U+1F3AC Scene '", scene_name, "' activated!">>>> \o results

\* get_status once the devices are known, as its lines (the types the integrations give
\* are whole words, so 'light' in device_type is an equality here)
StatusLines(devs) ==
    LET line(k) == <<"U+2022 ", devs[k].key, ": ", StateText(devs[k].value.state)>>
        typed(word) == {k \in 1..Len(devs) : word = devs[k].value.type}
        RECURSIVE lines(_, _)
        lines(ks, k) ==
            IF k > Len(devs) THEN << >>
            ELSE (IF k \in ks THEN <<line(k)>> ELSE << >>) \o lines(ks, k + 1)
        lights == typed("light")
        switches == typed("switch")
        sensors == typed("sensor")
        other == (1..Len(devs)) \ (lights \cup switches \cup sensors)
        group(title, ks) == IF ks = {} THEN << >> ELSE <<<<title>>>> \o lines(ks, 1)
    IN  <<<<"U+1F3E0 **Smart Home Status**">>, << >>>>
        \o group("U+1F4A1 **Lights:**", lights)
        \o group("U+1F50C **Switches:**", switches)
        \o group("U+1F4CA **Sensors:**", sensors)
        \o group("U+1F4F1 **Other Devices:**", other)

-----------------------------------------------------------------------------
(* SmartHomePlugin: calls *)

SampleDeviceNames == {"living room lights", "bedroom lights", "kitchen lights"}
SampleStates == {PyStr("on"), PyStr("off"), PyNum(20)}
SampleScenes == {"movie", "bedtime", "morning", "party", "default", "relax"}
SampleCommands ==
    {CmdKitchenLights, CmdLivingRoomLights, CmdLivingRoomOff, CmdLivingRoomDim, CmdLamp,
     CmdMovieScene, CmdRelaxScene, CmdStatus, CmdHello}

HomeFrame ==
    UNCHANGED <<now, timeVars, storeVars, schedVars, hVars, oVars, autoVars, engVars,
                preferences, convVars, ev_req>>

\* the plugin runs one call at a time: no await of it suspends with the integrations as
\* they are
ShFree == sh.pc \in {"idle", "done"}

\* a whole call of control_device(device_name, state) made by caller op
ShControl(op, command, device_name, state) ==
    LET r == ControlDevice(devices, device_name, state)
    IN  /\ devices' = r.devices
        /\ sh' = [NoCall EXCEPT !.pc = "done", !.op = op, !.command = command,
                                !.device = device_name, !.state = state,
                                !.before = devices,
                                !.calls = <<[device |-> device_name, state |-> state]>>,
                                !.controlled = IF r.controlled THEN <<device_name>> ELSE << >>,
                                !.out = <<r.text>>]
        /\ UNCHANGED scenes

\* activate_scene(scene_name) up to its first control_device call
ShScene(op, command, scene_name) ==
    /\ scenes' = IF HasItem(ScenesOf(scenes), scene_name) THEN scenes ELSE "default"
    /\ sh' = [NoCall EXCEPT !.pc = "scene", !.op = op, !.command = command,
                            !.scene = scene_name, !.before = devices,
                            !.queue = ScenePairs(scenes', scene_name)]
    /\ UNCHANGED devices

\* get_status
ShStatus(op, command) ==
    LET known == IF devices = << >> THEN DiscoverDevices(devices).devices ELSE devices
    IN  /\ devices' = known
        /\ sh' = [NoCall EXCEPT !.pc = "done", !.op = op, !.command = command,
                                !.before = devices, !.out = StatusLines(known)]
        /\ UNCHANGED scenes

\* execute(command)
ShExecute ==
    /\ ShFree
    /\ \E command \in SampleCommands :
          LET action == ParseHomeCommand(command)
          IN  IF action.type = "control"
              THEN ShControl("execute", command, action.device, action.state)
              ELSE IF action.type = "scene" THEN ShScene("execute", command, action.scene)
              ELSE IF action.type = "status" THEN ShStatus("execute", command)
              ELSE /\ sh' = [NoCall EXCEPT
                               !.pc = "done", !.op = "execute", !.command = command,
                               !.before = devices,
                               !.out = <<<<"I can help you control smart home devices. What would you like to do?">>>>]
                   /\ UNCHANGED <<devices, scenes>>
    /\ HomeFrame

\* control_device called on the plugin
ShControlDevice ==
    /\ ShFree
    /\ \E device_name \in SampleDeviceNames, state \in SampleStates :
          ShControl("control_device", << >>, device_name, state)
    /\ HomeFrame

\* activate_scene called on the plugin
ShActivateScene ==
    /\ ShFree
    /\ \E scene_name \in SampleScenes : ShScene("activate_scene", << >>, scene_name)
    /\ HomeFrame

\* discover_devices called on the plugin
ShDiscoverDevices ==
    /\ ShFree
    /\ LET r == DiscoverDevices(devices)
       IN  /\ devices' = r.devices
           /\ sh' = [NoCall EXCEPT !.pc = "done", !.op = "discover_devices",
                                   !.before = devices, !.out = r.text]
    /\ UNCHANGED scenes
    /\ HomeFrame

\* get_status called on the plugin
ShGetStatus ==
    /\ ShFree
    /\ ShStatus("get_status", << >>)
    /\ HomeFrame

\* activate_scene: the loop reaches its next pair and calls control_device
ShSceneCall ==
    /\ sh.pc = "scene" /\ sh.queue # << >>
    /\ sh' = [sh EXCEPT !.pc = "control", !.active = @ + 1,
                        !.calls = Append(@, Head(sh.queue))]
    /\ UNCHANGED <<devices, scenes>>
    /\ HomeFrame

\* activate_scene: the control_device call returns and its result is appended
ShSceneControlled ==
    /\ sh.pc = "control"
    /\ LET pair == Head(sh.queue)
           r == ControlDevice(devices, pair.device, pair.state)
       IN  /\ devices' = r.devices
           /\ sh' = [sh EXCEPT !.pc = "scene", !.active = @ - 1, !.queue = Tail(@),
                               !.results = Append(@, r.text),
                               !.controlled = IF r.controlled THEN Append(@, pair.device)
                                              ELSE @]
    /\ UNCHANGED scenes
    /\ HomeFrame

\* activate_scene: the loops are over and the text is returned
ShSceneReturn ==
    /\ sh.pc = "scene" /\ sh.queue = << >>
    /\ sh' = [sh EXCEPT !.pc = "done", !.out = SceneText(sh.scene, sh.results)]
    /\ UNCHANGED <<devices, scenes>>
    /\ HomeFrame

InitHome == InitIdle
NextHome ==
    \/ ShExecute \/ ShControlDevice \/ ShActivateScene \/ ShDiscoverDevices \/ ShGetStatus
    \/ ShSceneCall \/ ShSceneControlled \/ ShSceneReturn
SpecHome == InitHome /\ [][NextHome]_vars

-----------------------------------------------------------------------------
(* MemoryManager: the conversations table *)

MaxConversations == 2

\* "Hi Bob", "hi", "bob's" and no text; the text store_action builds for agent "web" and
\* action "go"
TextHiBob == <<"H", "i", " ", "B", "o", "b">>
TextHi == <<"h", "i">>
TextBobs == <<"b", "o", "b", "'", "s">>
SampleUserTexts == {TextHiBob, TextHi}
SampleQueries == {TextHi, TextBobs, << >>}
SampleResponses == {"Hello."}
SampleContexts == {"chat"}

\* nothing was asked of the table yet
NoReply ==
    [op |-> "none", exc |-> "none", user_input |-> << >>, leona_response |-> "",
     context |-> "", rows |-> << >>, text |-> << >>, limit |-> 0,
     key |-> "", value |-> PyNone]

\* the INSERT of store_conversation: id and timestamp are the defaults of the table
InsertOrReplaceConversation(rows, user_input, leona_response, context, t) ==
    SelectSeq(rows, LAMBDA r : r.user_input # user_input)
    \o <<[id |-> Len(rows) + 1, timestamp |-> t, user_input |-> user_input,
          leona_response |-> leona_response, context |-> context]>>
InsertConversation(rows, user_input, leona_response, context, t) ==
    Append(rows, [id |-> Len(rows) + 1, timestamp |-> t, user_input |-> user_input,
                  leona_response |-> leona_response, context |-> context])

\* f"[{self.name}] {action}" of store_action
ActionText(name, action) == <<"[">> \o name \o <<"]", " ">> \o action

\* the orders ORDER BY timestamp DESC may give the rows: rows of one timestamp come in
\* any order
NewestFirst(rows) ==
    {order \in [1..Len(rows) -> 1..Len(rows)] :
        /\ \A i, j \in 1..Len(rows) : i # j => order[i] # order[j]
        /\ \A i, j \in 1..Len(rows) :
              i < j => ~DtLess(rows[order[i]].timestamp, rows[order[j]].timestamp)}

\* the first limit rows of an order
Limited(rows, order, limit) ==
    [k \in 1..(IF Len(rows) < limit THEN Len(rows) ELSE limit) |-> rows[order[k]]]

\* the rows the WHERE of get_context keeps: LOWER(user_input) LIKE '%kw%' for one of the
\* keywords
Related(rows, keywords) ==
    SelectSeq(rows, LAMBDA r :
        \E k \in 1..Len(keywords) : InCommand(Concat(keywords[k]), LowerAscii(r.user_input)))

\* the text get_context builds from its rows
ContextText(rows) ==
    IF rows = << >> THEN << >>
    ELSE <<<<"Previous related conversations:">>>>
         \o [k \in 1..(3 * Len(rows)) |->
                LET row == rows[(k + 2) \div 3]
                IN  CASE k % 3 = 1 -> <<"User: ", Concat(row.user_input)>>
                      [] k % 3 = 2 -> <<"LEONA: ", row.leona_response>>
                      [] OTHER -> <<"---">>]

MemFrame ==
    UNCHANGED <<now, timeVars, storeVars, schedVars, hVars, oVars, autoVars, engVars,
                homeVars, preferences, ev_req>>

\* one call of store_conversation(user_input, leona_response, context): the database
\* takes the row or raises. CURRENT_TIMESTAMP is the time of the call.
StoreRow(op, user_input, leona_response, context) ==
    \E db \in Outcomes :
       /\ conversations' = IF db = "error" THEN conversations
                           ELSE InsertConversation(conversations, user_input,
                                                   leona_response, context, now)
       /\ cv_out' = [NoReply EXCEPT !.op = op, !.user_input = user_input,
                                    !.leona_response = leona_response,
                                    !.context = context,
                                    !.exc = IF db = "error" THEN "OperationalError"
                                            ELSE "none"]

StoreConversation ==
    /\ Len(conversations) < MaxConversations
    /\ \E user_input \in SampleUserTexts, leona_response \in SampleResponses,
          context \in SampleContexts :
          StoreRow("store_conversation", user_input, leona_response, context)
    /\ MemFrame

\* BaseAgent.store_action(action, result)
StoreAction ==
    /\ Len(conversations) < MaxConversations
    /\ StoreRow("store_action", ActionText(<<"w", "e", "b">>, <<"g", "o">>), "Done.",
                "agent_action")
    /\ MemFrame

\* get_recent_conversations(limit)
GetRecentConversations ==
    /\ \E limit \in {1, 10}, order \in NewestFirst(conversations), db \in Outcomes :
          cv_out' = IF db = "error"
                    THEN [NoReply EXCEPT !.op = "get_recent_conversations",
                                         !.limit = limit, !.exc = "OperationalError"]
                    ELSE [NoReply EXCEPT !.op = "get_recent_conversations",
                                         !.limit = limit,
                                         !.rows = Limited(conversations, order, limit)]
    /\ UNCHANGED conversations
    /\ MemFrame

\* get_context(user_input): the keywords are pasted into the text of one SELECT; without
\* a keyword, or with a quote in one, the statement does not parse
GetContext ==
    /\ \E user_input \in SampleQueries, db \in Outcomes :
          LET keywords == SplitWords(LowerAscii(user_input), << >>, << >>)
              quoted == \E k \in 1..Len(keywords) :
                           \E i \in 1..Len(keywords[k]) : keywords[k][i] = "'"
              related == Related(conversations, keywords)
          IN  IF db = "error" \/ keywords = << >> \/ quoted
              THEN cv_out' = [NoReply EXCEPT !.op = "get_context", !.user_input = user_input,
                                             !.exc = "OperationalError",
                                             !.text = IF db = "error"
                                                      THEN <<<<"database is locked">>>>
                                                      ELSE <<<<"syntax error">>>>]
              ELSE \E order \in NewestFirst(related) :
                      cv_out' = [NoReply EXCEPT
                                   !.op = "get_context", !.user_input = user_input,
                                   !.limit = 5, !.rows = Limited(related, order, 5),
                                   !.text = ContextText(Limited(related, order, 5))]
    /\ UNCHANGED conversations
    /\ MemFrame

\* the value SELECT value FROM preferences WHERE key = ? and json.loads give
\* get_preference: None when there is no row
PreferenceOf(rows, key) ==
    IF \E i \in 1..Len(rows) : rows[i].key = key
    THEN JsonLoads(rows[CHOOSE i \in 1..Len(rows) : rows[i].key = key].value)
    ELSE PyNone

\* update_preference(key, value), the value being what a JSON text of texts denotes:
\* json.dumps(value) is written under the key, or the database raises
UpdatePreferenceCall(keys, texts) ==
    /\ \E key \in keys, text \in texts, db \in Outcomes :
          /\ preferences' = IF db = "error" THEN preferences
                             ELSE UpdatePreference(preferences, key,
                                                   JsonDumps(JsonLoads(text)))
          /\ cv_out' = [NoReply EXCEPT !.op = "update_preference", !.key = key,
                                       !.value = JsonLoads(text),
                                       !.exc = IF db = "error" THEN "OperationalError"
                                               ELSE "none"]
    /\ UNCHANGED <<now, timeVars, storeVars, schedVars, hVars, oVars, autoVars, engVars,
                   homeVars, conversations, ev_req>>

\* get_preference(key)
GetPreferenceCall(keys) ==
    /\ \E key \in keys, db \in Outcomes :
          cv_out' = IF db = "error"
                    THEN [NoReply EXCEPT !.op = "get_preference", !.key = key,
                                         !.exc = "OperationalError"]
                    ELSE [NoReply EXCEPT !.op = "get_preference", !.key = key,
                                         !.value = PreferenceOf(preferences, key)]
    /\ UNCHANGED conversations
    /\ MemFrame

\* update_preference("theme", "dark") and get_preference("theme")
MemUpdatePreference == UpdatePreferenceCall({"theme"}, {<<TStr("dark")>>})
MemGetPreference == GetPreferenceCall({"theme"})

\* store_task, here on the empty tasks table only: the table has no part in what the
\* conversations hold
MemStoreTask == tasks = << >> /\ StoreTask

InitMemory == InitStore
\* the operations of the memory store; get_pending_tasks, which reads the tasks table
\* only, is in SpecStore
NextMemory ==
    \/ StoreConversation \/ StoreAction \/ GetRecentConversations \/ GetContext
    \/ MemStoreTask \/ MemUpdatePreference \/ MemGetPreference
SpecMemory == InitMemory /\ [][NextMemory]_vars

\* the conversations table with time passing between the calls: what is stored and what
\* the two reads return
NextRecall ==
    \/ StoreConversation \/ StoreAction \/ GetRecentConversations \/ GetContext \/ Tick
SpecRecall == InitMemory /\ [][NextRecall]_vars

\* the preferences table under keys and values of every JSON kind
SampleKeys == {"theme", "lang"}
\* "dark", 2, None, ["en", True] and {"url": "x.org", "keywords": []}
SampleValueTexts ==
    {<<TStr("dark")>>, <<TNum(2)>>, <<TNull>>,
     <<LBrack, TStr("en"), Comma, TTrue, RBrack>>,
     <<LBrace, TStr("url"), Colon, TStr("x.org"), Comma,
       TStr("keywords"), Colon, LBrack, RBrack, RBrace>>}
PrefUpdate == UpdatePreferenceCall(SampleKeys, SampleValueTexts)
PrefGet == GetPreferenceCall(SampleKeys)
NextPrefs == PrefUpdate \/ PrefGet
SpecPrefs == InitMemory /\ [][NextPrefs]_vars

----------------------------------------------------------------------------
(* the reminder checker under fair scheduling *)

MaxPending == 2

\* one add_reminder request from the call of execute to its return: the parse answer is
\* one of the reminder texts, _add_reminder appends the reminder and then stores its
\* task, which the priority lookup or the store may fail to do
AddReminderRequest ==
    /\ h_pc = "idle" /\ Len(reminders) < MaxPending
    /\ \E text \in ReminderTexts :
         \E du \in DateutilFor(text), stored \in BOOLEAN :
           \E cmd \in {ParseScheduleRequest(text, now, du)} :
             \E r \in {NewReminder(cmd, reminders, now)} :
               /\ cmd.v.ty = "dict" /\ ActionOf(cmd) = "add_reminder"
               /\ reminders' = Append(reminders, r)
               /\ tasks' = IF PriorityNumber(r.priority) # 0 /\ stored
                           THEN StoreTaskRows(tasks, r.title, DueOf(r.time),
                                              PriorityNumber(r.priority))
                           ELSE tasks
    /\ UNCHANGED <<now, timeVars, storeCall, recurring_tasks, chk_raised, hVars, oVars,
                   autoVars, preferences, extVars>>

\* _reminder_checker is a task of the event loop that never ends: each iteration sleeps
\* 60 seconds and runs again, also after an exception
NextChecker == AddReminderRequest \/ ReminderChecker \/ Tick
SpecChecker == InitSched /\ [][NextChecker]_vars /\ WF_vars(ReminderChecker)

----------------------------------------------------------------------------
(* concurrent add_event requests on one SchedulerAgent *)

TxtEventBare ==
    Object(<< <<"action", <<TStr("add_event")>> >>, <<"title", <<TStr("review")>> >> >>)
EventTexts == {TxtEvent, TxtEventBare}

\* the response of _add_calendar_event once the event's task is stored
EventCreatedText(title, conflicts) ==
    <<"U+1F4C5 **Event Created: ", title, "**">>
    \o (IF conflicts # << >>
        THEN <<"\n\nU+26A0 **Potential conflict detected:** ">> \o conflicts
        ELSE <<"\n\nU+2728 Your calendar is clear for this time.">>)

EventFrame ==
    UNCHANGED <<now, timeVars, storeVars, schedVars, hVars, oVars, autoVars, preferences,
                engVars, homeVars, convVars>>

\* execute is called and awaits the model's answer to the parse prompt
EvExecute(r) ==
    /\ ev_req[r].pc = "idle"
    /\ ev_req' = [ev_req EXCEPT ![r].pc = "parse"]
    /\ EventFrame

\* the model answers with an add_event command: _add_calendar_event builds the event
\* and awaits _check_conflicts, which awaits get_pending_tasks
EvCheckCall(r) ==
    /\ ev_req[r].pc = "parse"
    /\ \E text \in EventTexts :
         \E du \in DateutilFor(text) :
           ev_req' = [ev_req EXCEPT
                        ![r] = [NoEventRequest EXCEPT
                                  !.pc = "conflicts",
                                  !.event = NewEvent(ParseScheduleRequest(text, now, du),
                                                     now)]]
    /\ EventFrame

\* get_pending_tasks returns or raises; with its rows the conflicts are computed, and
\* the dict for store_task is built, whose json.dumps(event) raises for the datetime in
\* the event before store_task is called
EvCheckReturns(r) ==
    /\ ev_req[r].pc = "conflicts"
    /\ \E listed \in BOOLEAN :
         \E event \in {ev_req[r].event} :
           ev_req' =
             [ev_req EXCEPT
                ![r].pc = "done",
                ![r].fail = IF listed THEN "none" ELSE "store",
                ![r].out =
                   IF ~listed THEN SchedulerApology("OperationalError")
                   ELSE IF event.duration.ty # "num" THEN SchedulerApology("TypeError")
                   ELSE LET c == CheckConflicts(GetPendingTasks(tasks),
                                                event.start_time.dt, event.duration.n)
                        IN  IF c.exc # "none" THEN SchedulerApology(c.exc)
                            ELSE IF JsonDumpsRaises(event)
                            THEN SchedulerApology("TypeError")
                            ELSE EventCreatedText(event.title.s, c.text)]
    /\ EventFrame

\* execute returns the response to its caller
EvReturn(r) ==
    /\ ev_req[r].pc = "done"
    /\ ev_req' = [ev_req EXCEPT ![r] = NoEventRequest]
    /\ EventFrame

NextEvents ==
    \/ \E r \in 1..MaxRequests : EvExecute(r) \/ EvCheckCall(r) \/ EvCheckReturns(r) \/ EvReturn(r)
    \/ Tick
SpecEvents == InitSched /\ [][NextEvents]_vars

----------------------------------------------------------------------------
(* C1 .. C5 *)

\* the handlers whose parse step has a sentinel command with action "unknown"
SentinelAgents == {"scheduler", "automation", "file", "system"}

C2_AlwaysReturnsString ==
    (h_pc \in {"done", "raised"} /\ h_fail # "none") => (h_pc = "done" /\ h_out.exc = "none")

\* the classification call returned and its answer was read
Classified == o_pc \notin {"idle", "classify"} /\ o_gens # << >> /\ o_gens[1].ok

PrimaryAgent == o_intent.d["primary_agent"]

NoHandlerResolved ==
    /\ Classified
    /\ \/ o_gens[1].out \in NonJsonTexts
       \/ (o_intent.ty = "dict" /\ "primary_agent" \in DOMAIN o_intent.d /\ PrimaryAgent = PyNone)

OpenCalls == SelectSeq(o_gens, LAMBDA g : g.kind = "open")

RegisteredIntent ==
    /\ Classified
    /\ o_intent.ty = "dict" /\ "primary_agent" \in DOMAIN o_intent.d
    /\ PrimaryAgent.ty = "str" /\ PrimaryAgent.s \in Agents

UnregisteredIntent ==
    /\ Classified
    /\ o_intent.ty = "dict" /\ "primary_agent" \in DOMAIN o_intent.d
    /\ PrimaryAgent.ty = "str" /\ PrimaryAgent.s \notin Agents

IsPrefix(a, b) == Len(a) <= Len(b) /\ SubSeq(b, 1, Len(a)) = a

\* C4 as stated: with a registered primary_agent, and no external call failing,
\* process_input calls that handler's execute once with the user text and the classified
\* parameters, returns a text that begins with the handler's result and makes no
\* open-ended call; with an unregistered name it takes the conversation path.
C4_RoutesToHandler ==
    /\ (RegisteredIntent /\ o_pc \in {"done", "raised"} /\ o_fail \notin {"model", "store", "handler"}) =>
          /\ o_pc = "done"
          /\ Len(o_execs) = 1
          /\ o_execs[1].agent = PrimaryAgent.s /\ o_execs[1].input = o_input
          /\ "parameters" \in DOMAIN o_intent.d /\ o_execs[1].params = o_intent.d["parameters"]
          /\ IsPrefix(o_result, o_out.text)
          /\ OpenCalls = << >>
    /\ (UnregisteredIntent /\ o_pc \in {"fallback", "done", "raised"}) =>
          /\ o_execs = << >>
          /\ o_pc = "done" => Len(OpenCalls) = 1

----------------------------------------------------------------------------
(* C8 *)

KwOffset(kw) ==
    CASE kw = "tomorrow" -> 1 [] kw = "today" -> 0 [] kw = "next week" -> 7
      [] kw = "next month" -> 30 [] OTHER -> 0

\* C8: for a time string holding a relative keyword and a clock time HH[:MM][am|pm],
\* _parse_natural_time returns the keyword's date (now, +1, +7, +30 days) with hour and
\* minute replaced by the clock time (pm adds 12 below 12, 12am is hour 0); with a
\* keyword and no clock time it returns the keyword's date unchanged.
C8_KeywordThenClock ==
    (pt_pc = "done" /\ pt_desc.kw # "literal") =>
        /\ pt_res.exc = "none"
        /\ pt_res.dt.day = now.day + KwOffset(pt_desc.kw)
        /\ IF pt_desc.clock.form = "none"
           THEN pt_res.dt = AddDays(now, KwOffset(pt_desc.kw))
           ELSE /\ pt_res.dt.minute = pt_desc.clock.m
                /\ pt_res.dt.hour =
                      (IF pt_desc.clock.ap \in {"pm", "PM"} /\ pt_desc.clock.h < 12
                       THEN pt_desc.clock.h + 12
                       ELSE IF pt_desc.clock.ap = "am" /\ pt_desc.clock.h = 12 THEN 0
                       ELSE pt_desc.clock.h)

C8_Witness ==
    /\ pt_pc = "done"
    /\ pt_desc.kw = "next week" /\ pt_desc.clockFirst
    /\ pt_desc.clock.form = "clock" /\ pt_desc.clock.h = 12 /\ pt_desc.clock.ap = "am"
    /\ pt_desc.clock.hasMin /\ pt_desc.clock.m = 30
    /\ pt_res.dt.hour = 0 /\ pt_res.dt.minute = 30 /\ pt_res.dt.day = now.day + 7

----------------------------------------------------------------------------
(* C9, C10 *)

Overlaps(row, e) ==
    /\ row.status = "pending"
    /\ ~row.due_date.null
    /\ DtLE(e.start_time, FromIsoFormat(row.due_date.iso))
    /\ DtLE(FromIsoFormat(row.due_date.iso), AddMinutes(e.start_time, e.duration))

C10_PendingOrder ==
    st_pc = "listed" =>
        /\ \A i \in 1..Len(st_out) : st_out[i].status = "pending"
        /\ \A i \in 1..Len(tasks) :
              tasks[i].status = "pending" => \E j \in 1..Len(st_out) : st_out[j] = tasks[i]
        /\ Len(st_out) = Cardinality({i \in 1..Len(tasks) : tasks[i].status = "pending"})
        /\ \A i, j \in 1..Len(st_out) :
              i < j =>
                /\ st_out[i].priority >= st_out[j].priority
                /\ st_out[i].priority = st_out[j].priority =>
                      ~DueLess(st_out[j].due_date, st_out[i].due_date)

C10_Witness ==
    /\ st_pc = "listed"
    /\ Len(tasks) = 2 /\ Len(st_out) = 2
    /\ tasks[1].priority < tasks[2].priority
    /\ st_out[1] = tasks[2] /\ st_out[2] = tasks[1]

----------------------------------------------------------------------------
(* C6, C7 *)

\* C6: a reminder's notified flag goes from false to true only in an iteration of the
\* checker whose current time is at or after the reminder's time; it never goes back
\* to false, and a later iteration changes nothing about a reminder that has fired.
C6_NotifiedOnce ==
    [][/\ Len(reminders') >= Len(reminders)
       /\ \A i \in 1..Len(reminders) :
            /\ reminders[i].notified => reminders'[i] = reminders[i]
            /\ (~reminders[i].notified /\ reminders'[i].notified) =>
                  /\ DtLE(reminders[i].time, now)
                  /\ UNCHANGED <<now, tasks, recurring_tasks, hVars, oVars, autoVars, preferences, extVars>>
                  /\ reminders'[i] = [reminders[i] EXCEPT !.notified = TRUE]]_vars

C6_Witness ==
    \E i \in 1..Len(reminders) :
        /\ reminders[i].notified
        /\ reminders[i].time = DT(1, 15, 0, 0, 7)
        /\ DtLess(reminders[i].time, now)

HasPiece(text, x) == \E i \in 1..Len(text) : text[i] = x

\* the step of execute that runs _add_reminder for a request whose time is
\* "tomorrow at 3pm"
AddsTomorrowAt3pm ==
    /\ Dispatching("scheduler") /\ ActionOf(h_cmd) = "add_reminder"
    /\ HasKey(h_cmd.v, "time") /\ h_cmd.v.d["time"] = PyStr("tomorrow at 3pm")
    /\ h_pc' = "done"

\* the parse step for such a request: the parsed time is the next day at 15:00:00
ParsesTomorrowAt3pm ==
    (/\ h_pc = "parse" /\ h_pc' = "dispatch" /\ h_agent = "scheduler"
     /\ HasKey(JsonLoads(h_text'), "time")
     /\ JsonLoads(h_text').d["time"] = PyStr("tomorrow at 3pm"))
    => /\ h_cmd'.pt.has
       /\ h_cmd'.pt.dt = [now EXCEPT !.day = now.day + 1, !.hour = 15, !.minute = 0,
                                     !.second = 0]

AddsOneReminder ==
    /\ Len(reminders') = Len(reminders) + 1
    /\ SubSeq(reminders', 1, Len(reminders)) = reminders
    /\ reminders'[Len(reminders')].time = h_cmd.pt.dt
    /\ reminders'[Len(reminders')].notified = FALSE

-----------------------------------------------------------------------------
(* C11 *)

\* the number _add_reminder stores for a priority name
StoredPriority(name) == PriorityNumber(PyStr(name))

\* C11: get_pending_tasks lists higher-urgency tasks first: a task stored with the
\* number of priority high comes before one stored with the number of medium, which
\* comes before one stored with the number of low, and a task stored with priority 1
\* is the first element whenever one is pending.
C11_UrgentFirst ==
    st_pc = "listed" =>
        /\ \A i, j \in 1..Len(st_out) :
              \/ /\ st_out[i].priority = StoredPriority("high")
                 /\ st_out[j].priority \in {StoredPriority("medium"), StoredPriority("low")}
              \/ /\ st_out[i].priority = StoredPriority("medium")
                 /\ st_out[j].priority = StoredPriority("low")
              => i < j
        /\ (\E i \in 1..Len(st_out) : st_out[i].priority = 1) => st_out[1].priority = 1

-----------------------------------------------------------------------------
(* C12 *)

\* how many times x occurs in a sequence
Occurrences(seq, x) == Cardinality({k \in 1..Len(seq) : seq[k] = x})

\* C12: every invocation of _check_and_run_workflow on a workflow (the engine makes them,
\* e_runs lists them) increases the workflow's run_count by exactly 1 and sets its
\* last_run to the time of the invocation, whatever its actions are, and changes
\* nothing else: a workflow that was not invoked is left as it was.
C12_RunCounted ==
    [][AutomationEngine =>
          /\ Len(workflows') = Len(workflows)
          /\ \A i \in 1..Len(workflows) :
                LET before == workflows[i].value
                    n == Occurrences(e_runs', workflows[i].key)
                IN  /\ workflows'[i].key = workflows[i].key
                    /\ workflows'[i].value =
                          IF n = 0 THEN before
                          ELSE [before EXCEPT !.run_count = @ + n,
                                              !.last_run = LastRunAt(now)]]_vars

\* two time workflows, of two actions and of none, each ran once; then the clock moved
\* and only the first ran again
C12_Witness ==
    /\ Len(workflows) = 2
    /\ PyLen(workflows[1].value.actions).n = 2 /\ workflows[1].value.run_count = 2
    /\ workflows[1].value.last_run = LastRunAt(now)
    /\ workflows[2].value.actions = PyEmptyList /\ workflows[2].value.run_count = 1
    /\ workflows[2].value.last_run # LastRunAt(now)
    /\ e_runs = <<"workflow_0">>

-----------------------------------------------------------------------------
(* C13 *)

\* C13: every workflow in the registry, made by create_workflow or by create_automation,
\* has a trigger and the fields enabled, last_run and run_count, which are true, null
\* and 0 as long as nothing has run or disabled it, and a list_workflows or monitor
\* command reports on the registry instead of failing on a missing field.
C13_WorkflowFields ==
    /\ \A i \in 1..Len(workflows) :
          LET workflow == workflows[i].value
          IN  /\ {"trigger", "enabled", "last_run", "run_count"} \subseteq DOMAIN workflow
              /\ workflow.enabled
              /\ workflow.last_run = NoLastRun
              /\ workflow.run_count = 0
    /\ /\ h_agent = "automation" /\ h_pc = "done"
       /\ ItemIs(h_cmd.v, "action", "list_workflows") \/ ItemIs(h_cmd.v, "action", "monitor")
       => h_out.text # AutomationApology("KeyError")

-----------------------------------------------------------------------------
(* C14 *)

\* no store into the registry found its id there, and no two stores used the same id
FreshIds ==
    /\ \A k \in 1..Len(a_log) : ~a_log[k].existed
    /\ \A k, l \in 1..Len(a_log) : k < l => a_log[k].id # a_log[l].id

\* C14: under every interleaving of concurrent create_workflow and create_automation
\* requests, every creation gets an id that is not yet in the registry, none overwrites
\* a stored workflow, and the registry has as many entries as there were successful
\* creations (requests that returned their confirmation).
C14_AtomicCreates ==
    /\ FreshIds
    /\ Len(workflows) = Cardinality({k \in 1..Len(a_log) : a_log[k].confirmed})

-----------------------------------------------------------------------------
(* C15 *)

\* C15: run_count and last_run of a workflow change only in an iteration of the
\* background loop, and only for a workflow that is enabled and whose trigger is of type
\* time (never for an event or iot trigger, never for a disabled workflow); one
\* iteration runs a workflow at most once.
C15_EngineRunsEnabledTime ==
    [][/\ \A i \in 1..Len(workflows) :
             LET before == workflows[i].value
                 after == workflows'[i].value
             IN  ("run_count" \in DOMAIN before
                    /\ (after.run_count # before.run_count \/ after.last_run # before.last_run))
                 => /\ AutomationEngine
                    /\ before.enabled
                    /\ before.trigger.type = "time"
                    /\ Occurrences(e_runs', workflows[i].key) = 1
       /\ AutomationEngine =>
             \A k, l \in 1..Len(e_runs') : k < l => e_runs'[k] # e_runs'[l]]_vars

\* a time workflow that ran once and was then disabled, next to an enabled iot workflow:
\* the last iteration ran neither
C15_Witness ==
    /\ Len(workflows) = 2
    /\ workflows[1].value.trigger.type = "time" /\ ~workflows[1].value.enabled
    /\ workflows[1].value.run_count = 1
    /\ workflows[2].value.trigger.type = "iot" /\ workflows[2].value.enabled
    /\ workflows[2].value.run_count = 0
    /\ HasItem(triggers, "iot_workflow_1")
    /\ e_runs = << >> /\ e_exc = "none"

-----------------------------------------------------------------------------
(* C16 *)

\* piece is one of the pieces a line of text is made of
InLine(piece, line) == \E k \in 1..Len(line) : line[k] = piece

\* C16: after execute("turn on kitchen lights") on a plugin whose device registry was
\* empty, the registry holds a device named "kitchen lights" with state "on" and the
\* returned text is a confirmation that has the device name and the new state in it.
C16_KitchenLightsOn ==
    (sh.pc = "done" /\ sh.op = "execute" /\ sh.command = CmdKitchenLights
       /\ sh.before = << >>)
    => /\ HasItem(devices, "kitchen lights")
       /\ ItemOf(devices, "kitchen lights").state = PyStr("on")
       /\ \E k \in 1..Len(sh.out) :
             /\ InLine("U+2705 ", sh.out[k])
             /\ InLine("kitchen lights", sh.out[k])
             /\ InLine("on", sh.out[k])

-----------------------------------------------------------------------------
(* C17 *)

\* the step is, or ends, a control_device call for the device that the integration accepted
ControlledInStep(device_name) ==
    IF sh.pc = "control"
    THEN sh'.controlled = Append(sh.controlled, device_name)
    ELSE ShFree /\ sh'.pc = "done" /\ sh'.controlled = <<device_name>>

\* C17: the state of a registered device changes only in a successful control_device
\* call for that device; a control_device call for another device, known or unknown, and
\* a discovery run leave it as it was.
C17_StateOnlyByControl ==
    [][\A k \in 1..Len(devices) :
          (HasItem(devices', devices[k].key)
             /\ ItemOf(devices', devices[k].key).state # devices[k].value.state)
          => ControlledInStep(devices[k].key)]_vars

-----------------------------------------------------------------------------
(* C18 *)

\* the pairs the default scenes define for a name, none for a name they do not define
DefinedPairs(scene_name) ==
    IF HasItem(DefaultScenes, scene_name) THEN ItemOf(DefaultScenes, scene_name) ELSE << >>

\* C18: activate_scene(name) calls control_device once for each device/state pair of the
\* named scene, in the order of the scene, never with two calls in progress at once, and
\* returns the heading followed by exactly one result line per pair in the order of the
\* calls; for a name no scene defines it makes no control_device call.
C18_SceneSequential ==
    /\ sh.active \in {0, 1}
    /\ sh.scene # "" =>
          LET pairs == DefinedPairs(sh.scene)
          IN  /\ Len(sh.calls) <= Len(pairs)
              /\ sh.calls = SubSeq(pairs, 1, Len(sh.calls))
              /\ Len(sh.results) = Len(sh.calls) - sh.active
              /\ \A k \in 1..Len(sh.results) : InLine(sh.calls[k].device, sh.results[k])
              /\ sh.pc = "done" =>
                    /\ sh.calls = pairs
                    /\ Len(sh.out) = 1 + Len(pairs)
                    /\ SubSeq(sh.out, 2, Len(sh.out)) = sh.results

\* the movie scene has run: four calls in the order of the scene, four result lines
\* under the heading, the first of them for the living room lights
C18_Witness ==
    /\ sh.pc = "done" /\ sh.scene = "movie"
    /\ Len(sh.calls) = 4 /\ sh.calls[1].device = "living room lights"
    /\ sh.calls[4].device = "sound system"
    /\ Len(sh.out) = 5
    /\ sh.out[2] = <<"U+2705 ", "living room lights", " is now ", "20">>
    /\ sh.controlled = <<"living room lights">>

-----------------------------------------------------------------------------
(* C19 *)

\* AutomationAgent.execute called directly
AutomationExecute ==
    /\ o_pc = "idle"
    /\ \E input \in DirectInputs :
         /\ InSession("automation")
         /\ BeginExecute("automation", "direct", input, PyNone)
    /\ UNCHANGED <<now, timeVars, storeVars, schedVars, oVars, autoVars, preferences, extVars>>

\* the automation agent called directly while the clock moves
InitDevices == InitIdle
NextDevices ==
    AutomationExecute \/ ModelFailsInParse \/ AutomationSteps \/ ExecuteReturns \/ Tick
SpecDevices == InitDevices /\ [][NextDevices]_vars

\* the device id cannot be a dict key
Unhashable(device_id) == device_id.ty \in {"dict", "list"}

\* after the control_device command of this step its device is in the registry with the
\* requested action as state and the time of the call as last_seen
DeviceControlled ==
    LET device_id == GetOr(h_cmd.v, "device", PyNone)
        action == GetOr(h_cmd.v, "device_action", PyNone)
    IN  /\ HasItem(iot_devices', device_id)
        /\ ItemOf(iot_devices', device_id).state = action
        /\ ItemOf(iot_devices', device_id).last_seen = now

\* no step removes a device from the registry
DevicesKept == \A k \in 1..Len(iot_devices) : HasItem(iot_devices', iot_devices[k].key)

\* C19 as stated: after every control_device command the device of the command is in the
\* registry (registered by the command if it was not there) with state equal to the
\* requested action and last_seen equal to the time of the call, and no command removes
\* a device.
C19_Original ==
    [][(AutomationControlDevice => DeviceControlled) /\ DevicesKept]_vars

\* C19 (amended): the same for every control_device command whose device id can be a
\* dict key (a string, a number, null); a command whose device id is a list or an object
\* raises TypeError and leaves the registry as it was.
C19_DeviceRegistered ==
    [][/\ AutomationControlDevice =>
             IF Unhashable(GetOr(h_cmd.v, "device", PyNone))
             THEN iot_devices' = iot_devices /\ h_out'.text = AutomationApology("TypeError")
             ELSE DeviceControlled
       /\ DevicesKept]_vars

\* the lamp was commanded again after the clock had moved, next to the device registered
\* under None: the lamp carries the requested action and the time of the later call
C19_Witness ==
    /\ Len(iot_devices) = 2
    /\ now # DT(0, 9, 20, 30, 7)
    /\ HasItem(iot_devices, PyStr("lamp")) /\ HasItem(iot_devices, PyNone)
    /\ ItemOf(iot_devices, PyStr("lamp")).state = PyStr("on")
    /\ ItemOf(iot_devices, PyStr("lamp")).last_seen = now
    /\ ItemOf(iot_devices, PyNone).last_seen # now
    /\ h_pc = "done"

-----------------------------------------------------------------------------
(* C20 *)

\* C20: over every sequence of operations of the memory store the conversation records
\* are only appended to: every record that was there stays, unchanged and in place, and
\* a store_conversation call that the database accepts (store_action makes one) adds
\* exactly one record, holding the given input, response and context.
C20_AppendOnly ==
    [][/\ Len(conversations') >= Len(conversations)
       /\ SubSeq(conversations', 1, Len(conversations)) = conversations
       /\ (StoreConversation \/ StoreAction) =>
             IF cv_out'.exc # "none" THEN conversations' = conversations
             ELSE /\ Len(conversations') = Len(conversations) + 1
                  /\ LET new == conversations'[Len(conversations')]
                     IN  /\ new.user_input = cv_out'.user_input
                         /\ new.leona_response = cv_out'.leona_response
                         /\ new.context = cv_out'.context
       /\ ~(StoreConversation \/ StoreAction) => conversations' = conversations]_vars

\* "Hi Bob" was stored twice, with a task and a preference stored as well, and a
\* get_context for "hi" has just read both records
C20_Witness ==
    /\ Len(conversations) = 2
    /\ conversations[1].user_input = TextHiBob /\ conversations[1].context = "chat"
    /\ conversations[2].user_input = TextHiBob /\ conversations[2].id = 2
    /\ Len(tasks) = 1 /\ preferences # << >>
    /\ cv_out.op = "get_context" /\ Len(cv_out.rows) = 2

----------------------------------------------------------------------------------
(* C21 *)

\* C21: get_recent_conversations(n) returns at most n records, most recent first: in a
\* read that directly follows a store_conversation the database accepted, the first
\* record returned holds the input and the response just stored, also when an earlier
\* record has the same timestamp.
C21_NewestFirstAfterStore ==
    [][(/\ GetRecentConversations
        /\ cv_out.op \in {"store_conversation", "store_action"} /\ cv_out.exc = "none"
        /\ cv_out'.exc = "none")
       => /\ Len(cv_out'.rows) <= cv_out'.limit
          /\ cv_out'.rows # << >>
          /\ cv_out'.rows[1].user_input = cv_out.user_input
          /\ cv_out'.rows[1].leona_response = cv_out.leona_response]_vars

----------------------------------------------------------------------------------
(* C22 *)

\* the record's input holds one of the query's whitespace-separated tokens, case ignored
MatchesQuery(row, query) ==
    LET tokens == SplitWords(LowerAscii(query), << >>, << >>)
    IN  \E k \in 1..Len(tokens) : InCommand(Concat(tokens[k]), LowerAscii(row.user_input))

\* C22: for every query string get_context, with the database available, returns a
\* string: it is built from at most 5 stored conversations whose input holds a token of
\* the query, most recent first, as alternating user and assistant turns, and it is
\* empty when no stored input matches.
C22_ContextForEveryQuery ==
    (cv_out.op = "get_context" /\ cv_out.text # <<<<"database is locked">>>>)
    => /\ cv_out.exc = "none"
       /\ Len(cv_out.rows) <= 5
       /\ \A k \in 1..Len(cv_out.rows) :
             /\ \E i \in 1..Len(conversations) : conversations[i] = cv_out.rows[k]
             /\ MatchesQuery(cv_out.rows[k], cv_out.user_input)
       /\ \A j, k \in 1..Len(cv_out.rows) :
             j < k => ~DtLess(cv_out.rows[j].timestamp, cv_out.rows[k].timestamp)
       /\ cv_out.text = ContextText(cv_out.rows)
       /\ (cv_out.text = << >>) <=>
             ~\E i \in 1..Len(conversations) :
                 MatchesQuery(conversations[i], cv_out.user_input)

----------------------------------------------------------------------------------
(* C23 *)

\* a == b on Python values: the same type and content, member by member
RECURSIVE SameValue(_, _)
SameValue(a, b) ==
    /\ a.ty = b.ty /\ a.s = b.s /\ a.n = b.n
    /\ DOMAIN a.d = DOMAIN b.d
    /\ \A k \in DOMAIN a.d : SameValue(a.d[k], b.d[k])

\* C23: get_preference(k) returns the value of the most recent update_preference(k, v)
\* and None for a key never set, and an update of one key leaves every other key's
\* value as it was. As steps: no key has a value at the start; an update the database
\* accepts makes its value the key's value and changes no other key's; a failed update
\* and a read change none; a read returns the key's value.
C23_LastWriteWins ==
    [][/\ (\A k \in SampleKeys :
              cv_out.op = "none" => SameValue(PreferenceOf(preferences, k), PyNone))
       /\ IF cv_out'.op = "update_preference" /\ cv_out'.exc = "none"
          THEN /\ SameValue(PreferenceOf(preferences', cv_out'.key), cv_out'.value)
               /\ \A k \in SampleKeys \ {cv_out'.key} :
                     SameValue(PreferenceOf(preferences', k), PreferenceOf(preferences, k))
          ELSE \A k \in SampleKeys :
                  SameValue(PreferenceOf(preferences', k), PreferenceOf(preferences, k))
       /\ (cv_out'.op = "get_preference" /\ cv_out'.exc = "none") =>
             SameValue(cv_out'.value, PreferenceOf(preferences, cv_out'.key))]_vars

\* "lang" was set to a list and then "theme" to a dict, each over an earlier value or
\* not, and a read of "theme" has returned the dict
C23_Witness ==
    /\ cv_out.op = "get_preference" /\ cv_out.key = "theme" /\ cv_out.exc = "none"
    /\ cv_out.value.ty = "dict"
    /\ SameValue(cv_out.value, PyDict([url |-> PyStr("x.org"), keywords |-> PyEmptyList]))
    /\ Len(preferences) = 2
    /\ preferences[1].key = "lang" /\ preferences[2].key = "theme"
    /\ SameValue(PreferenceOf(preferences, "lang"), PyList(<<PyStr("en"), PyTrue>>))

----------------------------------------------------------------------------------
(* C24 *)

\* the external calls one process_input request is waiting for: the classification
\* model call, the handler's model call (its parse step), the handler's dispatch with
\* its MemoryStore calls, the context retrieval with the suggestion model call, and the
\* conversation model call
OutstandingCalls ==
    (IF o_pc = "classify" THEN {"classification"} ELSE {})
    \cup (IF h_pc = "parse" THEN {"handler model"} ELSE {})
    \cup (IF h_pc = "dispatch" THEN {"handler store"} ELSE {})
    \cup (IF o_pc = "suggest" THEN {"suggestion"} ELSE {})
    \cup (IF o_pc = "fallback" THEN {"conversation"} ELSE {})

\* C24: the steps of one process_input request are strictly sequential: the
\* classification call has completed before execute starts, execute has not started
\* while the request is classified or routed, the handler's calls have completed and
\* execute has returned before the context retrieval and the suggestion call start,
\* and the request never waits for two external calls at once.
C24_StrictlySequential ==
    /\ Cardinality(OutstandingCalls) <= 1
    /\ o_pc \in {"classify", "route"} => (h_pc = "idle" /\ o_execs = << >>)
    /\ o_pc = "classify" => o_gens = << >>
    /\ h_pc # "idle" =>
          /\ o_pc = "exec" /\ Len(o_execs) = 1
          /\ Len(o_gens) = 1 /\ o_gens[1].kind = "classify" /\ o_gens[1].ok
    /\ o_pc = "suggest" =>
          /\ h_pc = "idle" /\ Len(o_execs) = 1
          /\ Len(o_gens) = 1 /\ o_gens[1].kind = "classify"
    /\ \A i \in 1..Len(o_gens) : o_gens[i].kind = "suggest" => (i = 2 /\ Len(o_execs) = 1)

\* a request whose scheduler handler stored a reminder's task has returned from execute
\* and waits for the context and the suggestion
C24_Witness ==
    /\ o_pc = "suggest" /\ h_pc = "idle"
    /\ o_execs # << >> /\ o_execs[1].agent = "scheduler"
    /\ reminders # << >> /\ tasks # << >>

----------------------------------------------------------------------------------
(* C25 *)

\* the command a handler's parse step substitutes when json.loads raises
SentinelOf(agent, user_input) ==
    CASE agent = "scheduler" -> SchedulerSentinel.v
      [] agent = "file" -> FileSentinel
      [] agent = "system" -> SystemSentinel
      [] agent = "web" -> WebOnParseError(JsonError, user_input)
      [] OTHER -> AutomationSentinel

\* the else branch of a handler's dispatch: its help or overview response
FallThrough ==
    SchedulerOverview \/ FileSuggest \/ SystemOther \/ WebOther \/ AutomationSuggest

\* C25: when a handler's parse step has yielded its sentinel command, the dispatch takes
\* the else branch with the help or overview response, and no reminder, recurring task,
\* stored task, workflow, trigger, device or preference is created or changed (the
\* branches that touch files, subprocesses or the network are not taken).
C25_SentinelFallsThrough ==
    [][(/\ h_pc = "dispatch" /\ h_pc' # "dispatch"
        /\ SameValue(h_cmd.v, SentinelOf(h_agent, h_input)))
       => /\ FallThrough
          /\ UNCHANGED <<reminders, recurring_tasks, tasks, workflows, triggers,
                         iot_devices, preferences>>]_vars

----------------------------------------------------------------------------------
(* C26 *)

\* C26: process_input returns a string and raises nothing for every classification
\* text that is valid JSON (an object with or without the keys primary_agent and
\* parameters, a list, a number, a string), as long as no later model call, store call,
\* context query or handler fails.
C26_ValidJsonNeverRaises ==
    (/\ o_pc \in {"done", "raised"}
     /\ o_gens # << >> /\ o_gens[1].kind = "classify" /\ o_gens[1].ok
     /\ JsonLoads(o_gens[1].out).ty # "error"
     /\ o_fail \notin {"model", "store", "query", "handler"})
    => (o_pc = "done" /\ o_out.exc = "none")

----------------------------------------------------------------------------------
(* C27 *)

\* C27: an add_reminder command is all-or-nothing: whenever execute returns the
\* scheduling apology for it (the priority is not high, medium or low, or the task
\* store fails), the reminders list is as it was before the command.
C27_AddReminderAllOrNothing ==
    [][(/\ Dispatching("scheduler") /\ h_cmd.v.ty = "dict"
        /\ ActionOf(h_cmd) = "add_reminder"
        /\ h_pc' = "done"
        /\ h_out'.text[1] = "I encountered an issue with scheduling: ")
       => reminders' = reminders]_vars

----------------------------------------------------------------------------------
(* C28 *)

\* C28: a check_conflicts command whose request carries a time _parse_natural_time has
\* parsed returns, when the pending tasks can be read, the conflict report computed from
\* the parsed time with the request's duration (60 minutes by default): the first
\* conflicting task's title or the empty report, and not the scheduling apology.
C28_ConflictReportFromParsedTime ==
    [][(/\ Dispatching("scheduler") /\ h_cmd.v.ty = "dict"
        /\ ActionOf(h_cmd) = "check_conflicts"
        /\ h_cmd.pt.has
        /\ h_pc' = "done" /\ h_fail' # "store")
       => /\ h_out'.exc = "none"
          /\ h_out'.text = CheckConflicts(GetPendingTasks(tasks), h_cmd.pt.dt,
                                          GetOr(h_cmd.v, "duration", PyNum(60)).n).text]_vars

----------------------------------------------------------------------------------
(* C29 *)

\* the reminder at place i is in the list, not notified, and its time is at or before
\* the current time
DueAt(i) ==
    /\ i <= Len(reminders) /\ ~reminders[i].notified
    /\ DtComparable(reminders[i].time, now) /\ DtLE(reminders[i].time, now)

NotifiedAt(i) == i <= Len(reminders) /\ reminders[i].notified

\* C29: under fair scheduling of the reminder checker every reminder of the list whose
\* time is at or before the current time is eventually marked notified, whatever other
\* reminders the list holds and while reminders are added.
C29_DueEventuallyNotified == \A i \in 1..MaxPending : DueAt(i) ~> NotifiedAt(i)

----------------------------------------------------------------------------------
(* C30 *)

\* request r has completed an add_event command whose conflict check ran
EventCompleted(r) == ev_req[r].pc = "done" /\ ev_req[r].fail = "none"

ReportsConflict(r) ==
    HasPiece(ev_req[r].out, "\n\nU+26A0 **Potential conflict detected:** ")

\* C30: when two add_event requests with the same start time have both completed on
\* one SchedulerAgent, whatever the interleaving of their awaited calls, at least one
\* of the two responses reports a potential conflict.
C30_OneReportsConflict ==
    \A r1, r2 \in 1..MaxRequests :
       (/\ r1 # r2 /\ EventCompleted(r1) /\ EventCompleted(r2)
        /\ ev_req[r1].event.start_time = ev_req[r2].event.start_time)
       => (ReportsConflict(r1) \/ ReportsConflict(r2))

====
